---- MODULE Spec2Model ----
(***************************************************************************)
(* The console input buffer (INPUT_INFORMATION): a circular buffer of      *)
(* INPUT_RECORDs with one unused sentinel slot, coalescing writes,         *)
(* growth on demand and a not-empty wait event.                            *)
(*                                                                         *)
(* Pointers are modelled as offsets from the start of the allocation,      *)
(* counted in records: First = 0, Last = InputBufferSize + 1, and the      *)
(* record a pointer p designates is InputBuffer[p + 1].  Byte lengths of   *)
(* the source (TransferLength, BufferLengthInBytes) are likewise counted   *)
(* in records.                                                             *)
(*                                                                         *)
(* The contents of the slots outside the queue (never written, or already  *)
(* read or flushed) are not tracked: such a slot holds Uninit, and a copy  *)
(* taken of it yields an arbitrary record (Materialize).                   *)
(***************************************************************************)
EXTENDS Integers, Sequences, FiniteSets, TLC

(***************************************************************************)
(* Bounds of the model.                                                    *)
(***************************************************************************)
\* the largest SHORT: the coordinates of the render engine are kept in a reduced width
SHORT_MAX == 7
SHORT_MIN == (-SHORT_MAX) - 1
\* the number of reader threads
MaxReaders == 2
\* the rows the cursor is put on: 0..MaxCursorY
MaxCursorY == 2
\* the records queued when a write of SpecKeys is made
MaxQueued == 1
\* largest capacity hint given to the constructor
MaxHint == 2
\* largest number of records in one write / prepend request
MaxBatch == 3
\* largest Length of a read request
MaxRead == 3
\* writes that would grow the capacity beyond this are not taken
MaxBufferSize == 4
\* coalescing that would push a repeat count beyond this is not taken
MaxRepeat == 2
\* number of records the write/read histories keep track of
MaxWrites == 5
\* the outstanding-read count of the reading handle is not pushed beyond this
MaxReadCount == 2
\* the largest value of the model's ULONG and size_t: the words are 8 bits wide, so
\* that the size computations overflow at sizes the model can name
ULONG_MAX == 255
\* the largest WORD, the type of wRepeatCount
WORD_MAX == (2 ^ 16) - 1

(***************************************************************************)
(* Constants of inputBuffer.hpp (the header is not among the sources; the  *)
(* values are kept small so that growth and the default capacity are       *)
(* exercised).                                                             *)
(***************************************************************************)
DEFAULT_NUMBER_OF_EVENTS == 2
INPUT_BUFFER_SIZE_INCREMENT == 1

KEY_EVENT == "KEY_EVENT"
MOUSE_EVENT == "MOUSE_EVENT"
FOCUS_EVENT == "FOCUS_EVENT"
MOUSE_MOVED == "MOUSE_MOVED"
NLS_IME_CONVERSION == "NLS_IME_CONVERSION"
ENABLE_LINE_INPUT == "ENABLE_LINE_INPUT"
CONSOLE_OUTPUT_SUSPENDED == "CONSOLE_OUTPUT_SUSPENDED"
CONSOLE_SUSPENDED == {CONSOLE_OUTPUT_SUSPENDED}
CONSOLE_HAS_FOCUS == "CONSOLE_HAS_FOCUS"
CONSOLE_IGNORE_NEXT_MOUSE_INPUT == "CONSOLE_IGNORE_NEXT_MOUSE_INPUT"
ENABLE_MOUSE_INPUT == "ENABLE_MOUSE_INPUT"
VK_PAUSE == "VK_PAUSE"

\* sizeof(INPUT_RECORD) (wincon.h)
SizeofInputRecord == 20

STATUS_SUCCESS == "STATUS_SUCCESS"
STATUS_NO_MEMORY == "STATUS_NO_MEMORY"
STATUS_INTEGER_OVERFLOW == "STATUS_INTEGER_OVERFLOW"
CONSOLE_STATUS_WAIT == "CONSOLE_STATUS_WAIT"

NT_SUCCESS(Status) == Status = STATUS_SUCCESS

(***************************************************************************)
(* INPUT_RECORD.  Every record carries the same fields; the ones that do   *)
(* not belong to its EventType are blank, as the union leaves them.        *)
(***************************************************************************)
KeyRecord(vk, sc, ch, down, rep, cks) ==
    [EventType |-> KEY_EVENT, wVirtualKeyCode |-> vk, wVirtualScanCode |-> sc,
     UnicodeChar |-> ch, bKeyDown |-> down, wRepeatCount |-> rep,
     dwControlKeyState |-> cks, X |-> 0, Y |-> 0, dwEventFlags |-> "0"]

MouseRecord(x, y, flags, cks) ==
    [EventType |-> MOUSE_EVENT, wVirtualKeyCode |-> "", wVirtualScanCode |-> 0,
     UnicodeChar |-> "", bKeyDown |-> FALSE, wRepeatCount |-> 0,
     dwControlKeyState |-> cks, X |-> x, Y |-> y, dwEventFlags |-> flags]

FocusRecord ==
    [EventType |-> FOCUS_EVENT, wVirtualKeyCode |-> "", wVirtualScanCode |-> 0,
     UnicodeChar |-> "", bKeyDown |-> FALSE, wRepeatCount |-> 0,
     dwControlKeyState |-> {}, X |-> 0, Y |-> 0, dwEventFlags |-> "0"]

\* a slot whose contents are not defined: fresh memory, or a record no longer queued
Uninit ==
    [EventType |-> "UNINIT", wVirtualKeyCode |-> "", wVirtualScanCode |-> 0,
     UnicodeChar |-> "", bKeyDown |-> FALSE, wRepeatCount |-> 0,
     dwControlKeyState |-> {}, X |-> 0, Y |-> 0, dwEventFlags |-> "0"]

KeyA == KeyRecord("VK_A", 30, "a", TRUE, 1, {})
KeyB == KeyRecord("VK_B", 48, "b", TRUE, 1, {})
KeyAUp == KeyRecord("VK_A", 30, "a", FALSE, 1, {})
KeyWide == KeyRecord("VK_W", 17, "W", TRUE, 1, {})
KeyIme == KeyRecord("VK_A", 31, "a", TRUE, 1, {NLS_IME_CONVERSION})
KeyPause == KeyRecord(VK_PAUSE, 69, "", TRUE, 1, {})
KeyShift == KeyRecord("VK_SHIFT", 42, "", TRUE, 1, {})
Move55 == MouseRecord(5, 5, MOUSE_MOVED, {})
Move66 == MouseRecord(6, 6, MOUSE_MOVED, {})
MoveShift66 == MouseRecord(6, 6, MOUSE_MOVED, {"SHIFT_PRESSED"})
Click55 == MouseRecord(5, 5, "0", {})

\* the characters that occupy two cells (dbcs.h)
FullWidthChars == {"W"}
IsCharFullWidth(ch) == ch \in FullWidthChars

\* the keys that never release suspended output (input.h)
SystemKeys == {"VK_SHIFT"}
IsSystemKey(vk) == vk \in SystemKeys

\* Ctrl+S (input.h)
IsPauseKey(rec) == rec.wVirtualKeyCode = "VK_S" /\ "CTRL_PRESSED" \in rec.dwControlKeyState

Min(a, b) == IF a < b THEN a ELSE b

\* DWordAdd, DWordMult, SizeTMult, ULongMult (intsafe.h): the result, and whether it
\* fits the word
DWordAdd(a, b) == [ok |-> a + b <= ULONG_MAX, value |-> (a + b) % (ULONG_MAX + 1)]
DWordMult(a, b) == [ok |-> a * b <= ULONG_MAX, value |-> (a * b) % (ULONG_MAX + 1)]

\* the n records that start at pointer p
Records(buf, p, n) == SubSeq(buf, p + 1, p + n)

\* memmove of the records recs to pointer p
Store(buf, p, recs) ==
    [i \in 1..Len(buf) |-> IF i > p /\ i <= p + Len(recs) THEN recs[i - p] ELSE buf[i]]

\* new BYTE[...]: n slots that hold nothing yet
NewBuffer(n) == [i \in 1..n |-> Uninit]


(***************************************************************************)
(* The buffer as the operators below pass it around: the fields of         *)
(* INPUT_INFORMATION that make up the ring.                                *)
(***************************************************************************)
MakeRing(buf, size, first, last, in, out) ==
    [InputBuffer |-> buf, InputBufferSize |-> size, First |-> first, Last |-> last,
     In |-> in, Out |-> out]

\* INPUT_INFORMATION::GetNumberOfReadyEvents
GetNumberOfReadyEvents(r) ==
    IF r.In < r.Out
    THEN (r.Last - r.Out) + (r.In - r.First)
    ELSE r.In - r.Out

\* a faulty record-by-record transfer: every record counts one character
RECURSIVE AnsiTransferNarrow(_, _, _, _, _)
AnsiTransferNarrow(buf, q, Length, acc, old) ==
    IF acc < Length /\ old > 0
    THEN LET rest == AnsiTransferNarrow(buf, q + 1, Length, acc + 1, old - 1)
         IN  [copied |-> rest.copied + 1, chars |-> rest.chars]
    ELSE [copied |-> 0, chars |-> acc]

(***************************************************************************)
(* The record-by-record transfer of a non-Unicode read: copies records     *)
(* starting at pointer q while the character count acc is below Length     *)
(* and old records remain; a key event with a full-width character counts  *)
(* two characters, everything else one.  Yields the number of records      *)
(* copied and the character count reached.                                 *)
(***************************************************************************)
RECURSIVE AnsiTransfer(_, _, _, _, _)
AnsiTransfer(buf, q, Length, acc, old) ==
    IF acc < Length /\ old > 0
    THEN LET rec == buf[q + 1]
             width == IF rec.EventType = KEY_EVENT
                      THEN (IF IsCharFullWidth(rec.UnicodeChar) THEN 2 ELSE 1)
                      ELSE 1
             rest == AnsiTransfer(buf, q + 1, Length, acc + width, old - 1)
         IN  [copied |-> rest.copied + 1, chars |-> rest.chars]
    ELSE [copied |-> 0, chars |-> acc]

\* a faulty ReadResult: the caller is never told to reset the wait event
ReadResultNoReset(recs, out, in) ==
    [Buffer |-> recs, EventsRead |-> Len(recs), Out |-> out,
     ResetWaitEvent |-> FALSE, Status |-> STATUS_SUCCESS]

\* what a ReadBuffer call hands back: the records, their number, the read cursor after
\* the call, *ResetWaitEvent and the status
ReadResult(recs, out, in) ==
    [Buffer |-> recs, EventsRead |-> Len(recs), Out |-> out,
     ResetWaitEvent |-> (out = in), Status |-> STATUS_SUCCESS]

\* ReadBuffer, the branch for StreamRead with a key event at Out
ReadBufferStream(r) ==
    LET out1 == r.Out + 1
        out2 == IF r.Last = out1 THEN r.First ELSE out1
    IN  ReadResult(Records(r.InputBuffer, r.Out, 1), out2, r.In)

\* a faulty contiguous branch: the read cursor is left where it was
ReadBufferContiguousStuck(r, Length, Peek, Unicode) ==
    LET avail == IF (r.In - r.Out) > Length THEN Length ELSE r.In - r.Out
    IN  ReadResult(Records(r.InputBuffer, r.Out, avail), r.Out, r.In)

\* ReadBuffer, the branch for In > Out
ReadBufferContiguous(r, Length, Peek, Unicode) ==
    LET avail == IF (r.In - r.Out) > Length THEN Length ELSE r.In - r.Out
        TransferLength ==
            IF Unicode THEN avail
            ELSE AnsiTransfer(r.InputBuffer, r.Out, Length, 0, avail).copied
        out1 == IF Peek THEN r.Out ELSE r.Out + TransferLength
    IN  ReadResult(Records(r.InputBuffer, r.Out, TransferLength), out1, r.In)

\* a faulty wrapped branch: the records from First are handed back ahead of those up to Last
ReadBufferWrappedSwapped(r, Length, Peek, Unicode) ==
    LET avail1 == IF (r.Last - r.Out) > Length THEN Length ELSE r.Last - r.Out
        recs1 == Records(r.InputBuffer, r.Out, avail1)
        Length2 == Length - avail1
        avail2 == IF (r.In - r.First) > Length2 THEN Length2 ELSE r.In - r.First
        recs2 == Records(r.InputBuffer, r.First, avail2)
        out1 == IF Peek THEN r.Out
                ELSE IF avail1 = Length
                THEN (IF r.Out + avail1 = r.Last THEN r.First ELSE r.Out + avail1)
                ELSE r.First + avail2
    IN  ReadResult(IF avail1 = Length THEN recs1 ELSE recs2 \o recs1, out1, r.In)

\* the wrapped branch from "hit end of buffer, read from beginning" on: Length is what
\* is left to read, recs1 what the first transfer copied, out1 where it left Out
ReadBufferFromFirst(r, Length, Peek, Unicode, recs1, out1) ==
    LET avail2 == IF (r.In - r.First) > Length THEN Length ELSE r.In - r.First
        TransferLength ==
            IF Unicode THEN avail2
            ELSE AnsiTransfer(r.InputBuffer, r.First, Length, 0, avail2).copied
    IN  ReadResult(recs1 \o Records(r.InputBuffer, r.First, TransferLength),
                   IF Peek THEN out1 ELSE r.First + TransferLength, r.In)

\* the wrapped branch after its first transfer, of TransferLength records; done tells
\* that the request is satisfied, Length2 is what is left to read otherwise
ReadBufferToLast(r, Peek, Unicode, TransferLength, done, Length2) ==
    LET recs1 == Records(r.InputBuffer, r.Out, TransferLength)
        out1 == IF Peek THEN r.Out
                ELSE IF r.Out + TransferLength = r.Last THEN r.First
                ELSE r.Out + TransferLength
    IN  IF done
        THEN ReadResult(recs1, out1, r.In)
        ELSE ReadBufferFromFirst(r, Length2, Peek, Unicode, recs1, out1)

\* the wrapped branch of a non-Unicode read, ansi1 being what the record-by-record copy
\* up to Last did
ReadBufferWrappedAnsi(r, Length, Peek, ansi1) ==
    ReadBufferToLast(r, Peek, FALSE, ansi1.copied, ansi1.chars >= Length, Length - ansi1.chars)

\* ReadBuffer, the branch for In <= Out: up to Last, then from First
ReadBufferWrapped(r, Length, Peek, Unicode) ==
    LET avail1 == IF (r.Last - r.Out) > Length THEN Length ELSE r.Last - r.Out
    IN  IF Unicode
        THEN ReadBufferToLast(r, Peek, TRUE, avail1, avail1 = Length, Length - avail1)
        ELSE ReadBufferWrappedAnsi(r, Length, Peek,
                                   AnsiTransfer(r.InputBuffer, r.Out, Length, 0, avail1))

\* INPUT_INFORMATION::ReadBuffer
ReadBuffer(r, Length, Peek, StreamRead, Unicode) ==
    IF StreamRead /\ r.InputBuffer[r.Out + 1].EventType = KEY_EVENT
    THEN ReadBufferStream(r)
    ELSE IF r.In > r.Out
    THEN ReadBufferContiguous(r, Length, Peek, Unicode)
    ELSE ReadBufferWrapped(r, Length, Peek, Unicode)

(***************************************************************************)
(* What the copy that SetInputBufferSize takes of the old buffer holds: a  *)
(* slot that was never written has whatever the allocator left there,      *)
(* given by garbage.                                                       *)
(***************************************************************************)
Materialize(recs, garbage) ==
    [i \in 1..Len(recs) |-> IF recs[i] = Uninit THEN garbage[i] ELSE recs[i]]

\* SetInputBufferSize once ReadBuffer has copied the old buffer (rd) into the new one
CopyOldBuffer(rd, Size, garbage) ==
    [ring |-> MakeRing(Store(NewBuffer(Size + 1), 0, Materialize(rd.Buffer, garbage)),
                       Size, 0, Size + 1, rd.EventsRead, 0),
     Status |-> rd.Status]

\* a faulty SetInputBufferSize: a request that fails leaves the buffer flushed
SetInputBufferSizeFlushing(r, Size, allocated, garbage) ==
    IF ~DWordMult(SizeofInputRecord, (Size + 1) % (ULONG_MAX + 1)).ok
    THEN [ring |-> [r EXCEPT !.In = r.First, !.Out = r.First],
          Status |-> STATUS_INTEGER_OVERFLOW]
    ELSE IF ~allocated
    THEN [ring |-> [r EXCEPT !.In = r.First, !.Out = r.First], Status |-> STATUS_NO_MEMORY]
    ELSE CopyOldBuffer(ReadBuffer(r, Size, TRUE, FALSE, TRUE), Size, garbage)

\* INPUT_INFORMATION::SetInputBufferSize; allocated is the outcome of new BYTE[].  The
\* size_t of SizeTMult is as wide as ULONG, as in the 32-bit build, where the
\* computation can overflow.
SetInputBufferSize(r, Size, allocated, garbage) ==
    IF ~DWordMult(SizeofInputRecord, (Size + 1) % (ULONG_MAX + 1)).ok
    THEN [ring |-> r, Status |-> STATUS_INTEGER_OVERFLOW]
    ELSE IF ~allocated
    THEN [ring |-> r, Status |-> STATUS_NO_MEMORY]
    ELSE CopyOldBuffer(ReadBuffer(r, Size, TRUE, FALSE, TRUE), Size, garbage)

(***************************************************************************)
(* WriteBuffer.  The state of one call: the ring, the records not yet      *)
(* transferred (Buffer, advanced as the source advances the pointer),      *)
(* Length, EventsWritten, SetWaitEvent, the outcomes of the allocations    *)
(* still to come, and whether the call has returned (Status).              *)
(***************************************************************************)
\* the slot WriteBuffer takes for the most recently written record
LastInputEvent(r) ==
    IF r.In = r.First THEN r.Last - 1 ELSE r.In - 1

\* a faulty WriteDone: the status of a failed growth is lost
WriteDoneSuccess(s, status) ==
    [ring |-> s.ring, EventsWritten |-> s.EventsWritten, SetWaitEvent |-> s.SetWaitEvent,
     Status |-> STATUS_SUCCESS, Grows |-> s.Grows, Resized |-> s.Resized]

\* what a WriteBuffer call hands back; Grows counts its SetInputBufferSize calls and
\* Resized those of them that succeeded
WriteDone(s, status) ==
    [ring |-> s.ring, EventsWritten |-> s.EventsWritten, SetWaitEvent |-> s.SetWaitEvent,
     Status |-> status, Grows |-> s.Grows, Resized |-> s.Resized]

\* a faulty mouse-moved branch: the whole incoming event replaces the stored one
CoalesceMouseWhole(r, InputEvent) ==
    LET p == LastInputEvent(r)
        stored == r.InputBuffer[p + 1]
    IN  IF stored.EventType = MOUSE_EVENT /\ stored.dwEventFlags = MOUSE_MOVED
        THEN {[r EXCEPT !.InputBuffer[p + 1] = InputEvent]}
        ELSE {}

\* the mouse-moved branch of the coalescing: the event to merge into, or none
CoalesceMouse(r, InputEvent) ==
    LET p == LastInputEvent(r)
        stored == r.InputBuffer[p + 1]
    IN  IF stored.EventType = MOUSE_EVENT /\ stored.dwEventFlags = MOUSE_MOVED
        THEN {[r EXCEPT !.InputBuffer[p + 1].X = InputEvent.X,
                        !.InputBuffer[p + 1].Y = InputEvent.Y]}
        ELSE {}

\* a faulty key-down branch: the scan code is compared under IME conversion too
CoalesceKeyScanCode(r, InputEvent) ==
    LET p == LastInputEvent(r)
        stored == r.InputBuffer[p + 1]
    IN  IF /\ ~IsCharFullWidth(InputEvent.UnicodeChar)
           /\ stored.EventType = KEY_EVENT
           /\ stored.bKeyDown
           /\ stored.wVirtualScanCode = InputEvent.wVirtualScanCode
           /\ stored.UnicodeChar = InputEvent.UnicodeChar
           /\ stored.dwControlKeyState = InputEvent.dwControlKeyState
        THEN {[r EXCEPT !.InputBuffer[p + 1].wRepeatCount =
                  (stored.wRepeatCount + InputEvent.wRepeatCount) % (2 ^ 16)]}
        ELSE {}

\* a faulty key-down branch: the incoming repeat count replaces the stored one
CoalesceKeyReplace(r, InputEvent) ==
    LET p == LastInputEvent(r)
        stored == r.InputBuffer[p + 1]
    IN  IF /\ stored.EventType = KEY_EVENT
           /\ stored.bKeyDown
           /\ stored.wVirtualScanCode = InputEvent.wVirtualScanCode
           /\ stored.UnicodeChar = InputEvent.UnicodeChar
           /\ stored.dwControlKeyState = InputEvent.dwControlKeyState
        THEN {[r EXCEPT !.InputBuffer[p + 1].wRepeatCount = InputEvent.wRepeatCount]}
        ELSE {}

\* the key-down branch of the coalescing
CoalesceKey(r, InputEvent) ==
    LET p == LastInputEvent(r)
        stored == r.InputBuffer[p + 1]
        merged == [r EXCEPT !.InputBuffer[p + 1].wRepeatCount =
                       (stored.wRepeatCount + InputEvent.wRepeatCount) % (2 ^ 16)]
    IN  IF IsCharFullWidth(InputEvent.UnicodeChar)
        THEN {}
        ELSE IF NLS_IME_CONVERSION \in InputEvent.dwControlKeyState
        THEN IF /\ stored.EventType = KEY_EVENT
                /\ stored.bKeyDown
                /\ stored.UnicodeChar = InputEvent.UnicodeChar
                /\ stored.dwControlKeyState = InputEvent.dwControlKeyState
             THEN {merged}
             ELSE {}
        ELSE IF /\ stored.EventType = KEY_EVENT
                /\ stored.bKeyDown
                /\ stored.wVirtualScanCode = InputEvent.wVirtualScanCode
                /\ stored.UnicodeChar = InputEvent.UnicodeChar
                /\ stored.dwControlKeyState = InputEvent.dwControlKeyState
        THEN {merged}
        ELSE {}

\* a faulty gate: the first record of a longer write is coalesced too
CoalesceAnyLength(r, Buffer) ==
    IF Len(Buffer) >= 1 /\ r.Out # r.In
    THEN LET InputEvent == Buffer[1]
         IN  IF InputEvent.EventType = MOUSE_EVENT /\ InputEvent.dwEventFlags = MOUSE_MOVED
             THEN CoalesceMouse(r, InputEvent)
             ELSE IF InputEvent.EventType = KEY_EVENT /\ InputEvent.bKeyDown
             THEN CoalesceKey(r, InputEvent)
             ELSE {}
    ELSE {}

\* the coalescing of WriteBuffer: the ring after the merge, or no ring
Coalesce(r, Buffer) ==
    IF Len(Buffer) = 1 /\ r.Out # r.In
    THEN LET InputEvent == Buffer[1]
         IN  IF InputEvent.EventType = MOUSE_EVENT /\ InputEvent.dwEventFlags = MOUSE_MOVED
             THEN CoalesceMouse(r, InputEvent)
             ELSE IF InputEvent.EventType = KEY_EVENT /\ InputEvent.bKeyDown
             THEN CoalesceKey(r, InputEvent)
             ELSE {}
    ELSE {}

\* a faulty Transfer: the source pointer is not advanced past the records copied
TransferSameSource(s, TransferLength) ==
    [s EXCEPT !.ring.InputBuffer = Store(s.ring.InputBuffer, s.ring.In,
                                         SubSeq(s.Buffer, 1, TransferLength)),
              !.ring.In = s.ring.In + TransferLength,
              !.Buffer = SubSeq(s.Buffer, 1, Len(s.Buffer) - TransferLength),
              !.EventsWritten = s.EventsWritten + TransferLength]

\* memmove of TransferLength records to In and the bookkeeping after it
Transfer(s, TransferLength) ==
    [s EXCEPT !.ring.InputBuffer = Store(s.ring.InputBuffer, s.ring.In,
                                         SubSeq(s.Buffer, 1, TransferLength)),
              !.ring.In = s.ring.In + TransferLength,
              !.Buffer = SubSeq(s.Buffer, TransferLength + 1, Len(s.Buffer)),
              !.EventsWritten = s.EventsWritten + TransferLength]

\* the state of the call after a growth request that ended as res
Grown(s, res) ==
    [s EXCEPT !.ring = res.ring, !.allocs = Tail(s.allocs), !.Status = res.Status,
              !.Grows = s.Grows + 1,
              !.Resized = s.Resized + (IF NT_SUCCESS(res.Status) THEN 1 ELSE 0)]

\* a faulty growth request: the capacity asked for does not count the records of the call
GrowByIncrement(s) ==
    Grown(s, SetInputBufferSize(s.ring,
                                s.ring.InputBufferSize + INPUT_BUFFER_SIZE_INCREMENT,
                                Head(s.allocs), s.garbage))

\* the growth request of WriteBuffer, consuming one allocation outcome
Grow(s) ==
    Grown(s, SetInputBufferSize(s.ring,
                                s.ring.InputBufferSize + s.Length + INPUT_BUFFER_SIZE_INCREMENT,
                                Head(s.allocs), s.garbage))

\* a faulty wrap: In is left at Last when the transfer ends there
WrapInNever(s) == s

\* if (this->In == this->Last) this->In = this->First
WrapIn(s) ==
    IF s.ring.In = s.ring.Last THEN [s EXCEPT !.ring.In = s.ring.First] ELSE s

RECURSIVE WriteLoop(_)
RECURSIVE WriteOutPath(_)

\* the Out > In branch after its growth request: g is the state of the call after the
\* request, TransferLength the free slots there were before it
WriteAfterGrow(g, TransferLength) ==
    IF ~NT_SUCCESS(g.Status)
    THEN IF TransferLength = 0
         THEN WriteDone(g, g.Status)
         ELSE WriteLoop(Transfer(g, TransferLength))
    ELSE WriteOutPath(g)

\* the "buffer is totally full" case of OutPath after its growth request
WriteFullAfterGrow(g) ==
    IF ~NT_SUCCESS(g.Status)
    THEN WriteDone(g, g.Status)
    ELSE WriteLoop(WrapIn(Transfer(g, Len(g.Buffer))))

\* a faulty OutPath: the slot before Out is written like any other
WriteOutPathNoSentinel(s) ==
    LET r == s.ring
        BufferLengthInBytes == Len(s.Buffer)
    IN  IF (r.Last - r.In) > BufferLengthInBytes
        THEN WriteLoop(WrapIn(Transfer(s, BufferLengthInBytes)))
        ELSE WriteLoop(WrapIn(Transfer(s, r.Last - r.In)))

\* a faulty loop: the In >= Out branch asks for the wait event whatever the buffer holds
WriteLoopAlwaysSignals(s) ==
    LET r == s.ring
        BufferLengthInBytes == Len(s.Buffer)
    IN  IF ~(s.EventsWritten < s.Length)
        THEN WriteDone(s, STATUS_SUCCESS)
        ELSE IF r.Out > r.In
        THEN IF (r.Out - r.In - 1) < BufferLengthInBytes
             THEN WriteAfterGrow(Grow(s), r.Out - r.In - 1)
             ELSE WriteLoop(Transfer(s, BufferLengthInBytes))
        ELSE WriteOutPath([s EXCEPT !.SetWaitEvent = TRUE])

\* a faulty loop: the wrapped layout is taken to have one more free slot than it has
WriteLoopOffByOne(s) ==
    LET r == s.ring
        BufferLengthInBytes == Len(s.Buffer)
    IN  IF ~(s.EventsWritten < s.Length)
        THEN WriteDone(s, STATUS_SUCCESS)
        ELSE IF r.Out > r.In
        THEN IF (r.Out - r.In) < BufferLengthInBytes
             THEN WriteAfterGrow(Grow(s), r.Out - r.In - 1)
             ELSE WriteLoop(Transfer(s, BufferLengthInBytes))
        ELSE WriteOutPath([s EXCEPT !.SetWaitEvent = (s.SetWaitEvent \/ r.Out = r.In)])

\* the part of the loop body from the label OutPath on
WriteOutPath(s) ==
    LET r == s.ring
        BufferLengthInBytes == Len(s.Buffer)
    IN  IF (r.Last - r.In) > BufferLengthInBytes
        THEN WriteLoop(WrapIn(Transfer(s, BufferLengthInBytes)))
        ELSE IF r.First = r.Out /\ r.In = r.Last - 1
        THEN \* buffer is totally full
             WriteFullAfterGrow(Grow(s))
        ELSE LET toEnd == r.Last - r.In
                 TransferLength == IF r.First = r.Out THEN toEnd - 1 ELSE toEnd
             IN  WriteLoop(WrapIn(Transfer(s, TransferLength)))

\* while (*EventsWritten < Length)
WriteLoop(s) ==
    LET r == s.ring
        BufferLengthInBytes == Len(s.Buffer)
    IN  IF ~(s.EventsWritten < s.Length)
        THEN WriteDone(s, STATUS_SUCCESS)
        ELSE IF r.Out > r.In
        THEN IF (r.Out - r.In - 1) < BufferLengthInBytes
             THEN WriteAfterGrow(Grow(s), r.Out - r.In - 1)
             ELSE WriteLoop(Transfer(s, BufferLengthInBytes))
        ELSE WriteOutPath([s EXCEPT !.SetWaitEvent = (s.SetWaitEvent \/ r.Out = r.In)])

\* INPUT_INFORMATION::WriteBuffer
WriteBuffer(r, Buffer, allocs, garbage) ==
    LET c == Coalesce(r, Buffer)
        start == [ring |-> r, Buffer |-> Buffer, Length |-> Len(Buffer),
                  EventsWritten |-> 0, SetWaitEvent |-> FALSE, allocs |-> allocs,
                  garbage |-> garbage, Status |-> STATUS_SUCCESS, Grows |-> 0, Resized |-> 0]
    IN  IF c # {}
        THEN WriteDone([start EXCEPT !.ring = CHOOSE m \in c : TRUE, !.EventsWritten = 1],
                       STATUS_SUCCESS)
        ELSE WriteLoop(start)

(***************************************************************************)
(* PreprocessInput: strips the key-down events that release suspended      *)
(* output or that suspend it.  Yields the records kept and the console     *)
(* flags after the call.                                                   *)
(***************************************************************************)
\* UnblockWriteConsole (output.h): clears the reason in the console flags
UnblockWriteConsole(flags, reason) == flags \ {reason}

\* a faulty loop: the record that follows a removed one is passed over
RECURSIVE PreprocessInputSkips(_, _, _)
PreprocessInputSkips(InputEvent, flags, mode) ==
    IF InputEvent = <<>>
    THEN [recs |-> <<>>, Flags |-> flags]
    ELSE LET rec == Head(InputEvent)
             isKeyDown == rec.EventType = KEY_EVENT /\ rec.bKeyDown
             unblocks == /\ isKeyDown
                         /\ flags \cap CONSOLE_SUSPENDED # {}
                         /\ ~IsSystemKey(rec.wVirtualKeyCode)
             pauses == /\ isKeyDown
                       /\ ~unblocks
                       /\ ENABLE_LINE_INPUT \in mode
                       /\ (rec.wVirtualKeyCode = VK_PAUSE \/ IsPauseKey(rec))
             flags1 == IF unblocks THEN UnblockWriteConsole(flags, CONSOLE_OUTPUT_SUSPENDED)
                       ELSE IF pauses THEN flags \cup {CONSOLE_OUTPUT_SUSPENDED}
                       ELSE flags
             rest == PreprocessInputSkips(Tail(InputEvent), flags1, mode)
             skipped == IF Tail(InputEvent) = <<>>
                        THEN [recs |-> <<>>, Flags |-> flags1]
                        ELSE LET after == PreprocessInputSkips(Tail(Tail(InputEvent)),
                                                               flags1, mode)
                             IN  [recs |-> <<InputEvent[2]>> \o after.recs,
                                  Flags |-> after.Flags]
         IN  IF unblocks \/ pauses
             THEN skipped
             ELSE [recs |-> <<rec>> \o rest.recs, Flags |-> rest.Flags]

RECURSIVE PreprocessInput(_, _, _)
PreprocessInput(InputEvent, flags, mode) ==
    IF InputEvent = <<>>
    THEN [recs |-> <<>>, Flags |-> flags]
    ELSE LET rec == Head(InputEvent)
             isKeyDown == rec.EventType = KEY_EVENT /\ rec.bKeyDown
             unblocks == /\ isKeyDown
                         /\ flags \cap CONSOLE_SUSPENDED # {}
                         /\ ~IsSystemKey(rec.wVirtualKeyCode)
             pauses == /\ isKeyDown
                       /\ ~unblocks
                       /\ ENABLE_LINE_INPUT \in mode
                       /\ (rec.wVirtualKeyCode = VK_PAUSE \/ IsPauseKey(rec))
             flags1 == IF unblocks THEN UnblockWriteConsole(flags, CONSOLE_OUTPUT_SUSPENDED)
                       ELSE IF pauses THEN flags \cup {CONSOLE_OUTPUT_SUSPENDED}
                       ELSE flags
             rest == PreprocessInput(Tail(InputEvent), flags1, mode)
         IN  IF unblocks \/ pauses
             THEN rest
             ELSE [recs |-> <<rec>> \o rest.recs, Flags |-> rest.Flags]

(***************************************************************************)
(* FlushAllButKeys: the loop that copies the key events of the scratch     *)
(* copy back to the start of the buffer.  i counts the records of the      *)
(* scratch copy looked at, InPtr is the next slot to fill.                 *)
(***************************************************************************)
RECURSIVE KeepKeys(_, _, _, _, _)
KeepKeys(buf, size, Tmp, i, InPtr) ==
    IF i >= Len(Tmp) \/ InPtr >= size - 1
    THEN [InputBuffer |-> buf, InPtr |-> InPtr]
    ELSE IF Tmp[i + 1].EventType = KEY_EVENT
    THEN KeepKeys(Store(buf, InPtr, <<Tmp[i + 1]>>), size, Tmp, i + 1, InPtr + 1)
    ELSE KeepKeys(buf, size, Tmp, i + 1, InPtr)

(***************************************************************************)
(* The rectangles of the VT render engine.  A SMALL_RECT handed to the     *)
(* engine is exclusive of its Right and Bottom; a Viewport keeps the       *)
(* inclusive corners.  Both are records of Left, Top, Right and Bottom.    *)
(* The Viewport class is described here as the specification describes     *)
(* it: the union of two viewports is the smallest rectangle that covers    *)
(* both, and trimming truncates a rectangle to the bounds of the viewport. *)
(***************************************************************************)
Max(a, b) == IF a > b THEN a ELSE b

S_OK == "S_OK"
INTSAFE_E_ARITHMETIC_OVERFLOW == "INTSAFE_E_ARITHMETIC_OVERFLOW"
SUCCEEDED(hr) == hr = S_OK

\* ShortAdd: the sum, and whether it is a SHORT
ShortAdd(a, b) == [ok |-> (a + b) \in SHORT_MIN..SHORT_MAX, value |-> a + b]

SmallRect(l, t, r, b) == [Left |-> l, Top |-> t, Right |-> r, Bottom |-> b]

\* Viewport::FromExclusive
FromExclusive(sr) == SmallRect(sr.Left, sr.Top, sr.Right - 1, sr.Bottom - 1)

\* Viewport::ToExclusive
ToExclusive(v) == SmallRect(v.Left, v.Top, v.Right + 1, v.Bottom + 1)

\* Viewport::ToOrigin: the viewport of the same dimensions with its corner at 0, 0
ToOrigin(v) == SmallRect(0, 0, v.Right - v.Left, v.Bottom - v.Top)

\* Viewport::OrViewports: the smallest viewport that covers lhs and rhs
OrViewports(lhs, rhs) ==
    SmallRect(Min(lhs.Left, rhs.Left), Min(lhs.Top, rhs.Top),
              Max(lhs.Right, rhs.Right), Max(lhs.Bottom, rhs.Bottom))

\* Viewport::AddCoord: original moved by delta, unless a corner leaves the SHORTs
AddCoord(original, delta) ==
    LET newLeft == ShortAdd(original.Left, delta.X)
        newTop == ShortAdd(original.Top, delta.Y)
        newRight == ShortAdd(original.Right, delta.X)
        newBottom == ShortAdd(original.Bottom, delta.Y)
    IN  [hr |-> IF newLeft.ok /\ newTop.ok /\ newRight.ok /\ newBottom.ok
                THEN S_OK
                ELSE INTSAFE_E_ARITHMETIC_OVERFLOW,
         modified |-> SmallRect(newLeft.value, newTop.value, newRight.value,
                                newBottom.value)]

\* Viewport::TrimToViewport: the exclusive rectangle sr with each edge that lies outside
\* of v moved onto the edge of v
TrimToViewport(v, sr) ==
    SmallRect(Max(sr.Left, v.Left), Max(sr.Top, v.Top),
              Min(sr.Right, v.Right + 1), Min(sr.Bottom, v.Bottom + 1))

\* the viewport a Viewport is constructed as before any is given
ZeroViewport == SmallRect(0, 0, 0, 0)

\* the viewports of the terminal: three columns by two rows, and two columns by one row
\* with its corner away from the origin
Viewports == {SmallRect(0, 0, 2, 1), SmallRect(1, 1, 2, 1)}

InitialViewport == SmallRect(0, 0, 2, 1)

\* no thread holds the console lock
NoThread == 0

(***************************************************************************)
(* The state.                                                              *)
(***************************************************************************)
VARIABLES
    InputBuffer,      \* the backing store, InputBufferSize + 1 records
    InputBufferSize,  \* the capacity in records
    First,            \* start of the backing store
    Last,             \* end of the backing store (exclusive)
    In,               \* the write cursor
    Out,              \* the read cursor
    InputWaitEvent,   \* the not-empty event: TRUE when set
    InputMode,        \* the input mode flags
    Flags,            \* g_ciConsoleInformation.Flags
    ReadCount,        \* the outstanding reads of the reading handle
    calls,            \* the calls observed: their arguments, the state before, the results
    written,          \* history: the records the writes appended, in order
    readOut,          \* history: the records the non-peek reads returned, in order
    WaitQueue,        \* the readers suspended in the wait for more to read
    woken,            \* the readers notified that have not run again yet
    lock,             \* the thread that holds the console lock, or NoThread
    growth,           \* the SetInputBufferSize call in progress, <<>> when none
    _invalidRect,     \* VtEngine: the invalid region, a Viewport
    _fInvalidRectUsed, \* VtEngine: whether _invalidRect holds a region
    _lastViewport,    \* VtEngine: the viewport last given by the renderer
    _virtualTop,      \* VtEngine: the row taken as the top of the terminal
    _skipCursor,      \* VtEngine: set when the cursor was inherited
    _cursorMoved,     \* VtEngine: whether the cursor moved in this frame
    vtCalls           \* the calls of the render engine observed

ringVars == <<InputBuffer, InputBufferSize, First, Last, In, Out>>
histVars == <<written, readOut>>
waitVars == <<WaitQueue, woken>>
lockVars == <<lock, growth>>
cursorVars == <<_virtualTop, _skipCursor, _cursorMoved>>
vtVars == <<_invalidRect, _fInvalidRectUsed, _lastViewport, cursorVars, vtCalls>>
vars == <<InputBuffer, InputBufferSize, First, Last, In, Out, InputWaitEvent, InputMode,
          Flags, ReadCount, calls, written, readOut, WaitQueue, woken, lock, growth,
          _invalidRect, _fInvalidRectUsed, _lastViewport, _virtualTop, _skipCursor,
          _cursorMoved, vtCalls>>

Ring == MakeRing(InputBuffer, InputBufferSize, First, Last, In, Out)

\* is the slot at pointer p one of the queued records of r
Queued(r, p) ==
    IF r.In >= r.Out
    THEN r.Out <= p /\ p < r.In
    ELSE p >= r.Out \/ p < r.In

\* the backing store of r with the slots outside the queue left undefined
Contents(r) ==
    [i \in 1..Len(r.InputBuffer) |-> IF Queued(r, i - 1) THEN r.InputBuffer[i] ELSE Uninit]

SetRing(r) ==
    /\ InputBuffer' = Contents(r)
    /\ InputBufferSize' = r.InputBufferSize
    /\ First' = r.First
    /\ Last' = r.Last
    /\ In' = r.In
    /\ Out' = r.Out

\* the records queued in r, oldest first
Queue(r) ==
    IF r.In >= r.Out
    THEN Records(r.InputBuffer, r.Out, r.In - r.Out)
    ELSE Records(r.InputBuffer, r.Out, r.Last - r.Out)
         \o Records(r.InputBuffer, r.First, r.In - r.First)

(***************************************************************************)
(* calls holds the observations of calls: for each the state it was made   *)
(* in, its arguments and its results.  Any call made in any reachable      *)
(* state can be observed (observe); the calls before the first observed    *)
(* one leave no observation.                                               *)
(***************************************************************************)
Call(observe, op, args, res) ==
    IF ~observe THEN calls ELSE
    Append(calls,
           [op |-> op, pre |-> Ring, preQueue |-> Queue(Ring), preEvent |-> InputWaitEvent,
            preReadCount |-> ReadCount, preWaitQueue |-> WaitQueue,
            preGrowth |-> growth, preFlags |-> Flags, preMode |-> InputMode,
            input |-> args.input, Message |-> args.Message, Selection |-> args.Selection,
            recs |-> args.recs, Length |-> args.Length, Peek |-> args.Peek,
            StreamRead |-> args.StreamRead, Unicode |-> args.Unicode,
            WaitForData |-> args.WaitForData,
            n |-> res.n, Buffer |-> res.Buffer, flag |-> res.flag, Status |-> res.Status,
            Grows |-> res.Grows, Coalesced |-> res.Coalesced, Resized |-> res.Resized,
            Waited |-> res.Waited, Notified |-> res.Notified, Woken |-> res.Woken])

\* what the Selection answers when a window message is handled
Selecting(down, selecting, quickEdit) ==
    [IsMouseButtonDown |-> down, IsInSelectingState |-> selecting,
     IsInQuickEditMode |-> quickEdit]

NoSelection == Selecting(FALSE, FALSE, FALSE)

\* the arguments of a call, as calls keeps them; WaitForData is FALSE unless set, and
\* input, the records given before the preprocessing, is recs unless set; Message and
\* Selection are the window message handled and the answers of the Selection
Args(recs, Length, Peek, StreamRead, Unicode) ==
    [recs |-> recs, Length |-> Length, Peek |-> Peek, StreamRead |-> StreamRead,
     Unicode |-> Unicode, WaitForData |-> FALSE, input |-> recs,
     Message |-> "WM_NULL", Selection |-> NoSelection]

NoArgs == Args(<<>>, 0, FALSE, FALSE, FALSE)

\* the results of a call, as calls keeps them: the count reported (n), the records handed
\* back (Buffer), SetWaitEvent or ResetWaitEvent (flag), the status, the number of
\* SetInputBufferSize calls made (Grows), whether the write was coalesced; the number of
\* those SetInputBufferSize calls that succeeded (Resized) and whether WaitForMoreToRead
\* was called (Waited) are 0 and FALSE unless set; so are whether
\* WakeUpReadersWaitingForData was called (Notified) and the readers it took off the
\* wait queue (Woken)
Results(n, Buffer, flag, Status, Grows, Coalesced) ==
    [n |-> n, Buffer |-> Buffer, flag |-> flag, Status |-> Status, Grows |-> Grows,
     Coalesced |-> Coalesced, Resized |-> 0, Waited |-> FALSE, Notified |-> FALSE,
     Woken |-> {}]

\* the constructor once cEvents is settled: BufferSize is computed in the word and is
\* the number of bytes allocated
Allocate(cEvents) ==
    LET BufferSize == (SizeofInputRecord * ((cEvents + 1) % (ULONG_MAX + 1)))
                         % (ULONG_MAX + 1)
    IN  MakeRing(NewBuffer(BufferSize \div SizeofInputRecord), cEvents,
                 0, BufferSize \div SizeofInputRecord, 0, 0)

\* a faulty constructor: the size computation is not checked for overflow
ConstructUnchecked(cEvents) ==
    Allocate(IF cEvents = 0 THEN DEFAULT_NUMBER_OF_EVENTS ELSE cEvents)

\* INPUT_INFORMATION::INPUT_INFORMATION
Construct(cEvents) ==
    LET size == IF cEvents = 0 THEN DEFAULT_NUMBER_OF_EVENTS ELSE cEvents
        uTemp == DWordAdd(size, 1)
    IN  IF ~uTemp.ok \/ ~DWordMult(SizeofInputRecord, uTemp.value).ok
        THEN Allocate(DEFAULT_NUMBER_OF_EVENTS)
        ELSE Allocate(size)

DefaultInputMode ==
    {ENABLE_LINE_INPUT, "ENABLE_PROCESSED_INPUT", "ENABLE_ECHO_INPUT", "ENABLE_MOUSE_INPUT"}

Init ==
    /\ \E cEvents \in 0..MaxHint :
          LET r == Construct(cEvents)
          IN  /\ InputBuffer = r.InputBuffer
              /\ InputBufferSize = r.InputBufferSize
              /\ First = r.First
              /\ Last = r.Last
              /\ In = r.In
              /\ Out = r.Out
    /\ InputWaitEvent = FALSE
    /\ InputMode = DefaultInputMode
    /\ Flags = {}
    /\ ReadCount = 0
    /\ calls = <<>>
    /\ written = <<>>
    /\ readOut = <<>>
    /\ WaitQueue = {}
    /\ woken = {}
    /\ lock = NoThread
    /\ growth = <<>>
    /\ _invalidRect = ZeroViewport
    /\ _fInvalidRectUsed = FALSE
    /\ _lastViewport = InitialViewport
    /\ _virtualTop = 0
    /\ _skipCursor = FALSE
    /\ _cursorMoved = FALSE
    /\ vtCalls = <<>>

\* the allocator's leftovers are never looked at on the paths that resize a non-empty buffer
NoGarbage == [i \in 1..(MaxBufferSize + 2) |-> Uninit]

\* the model's cap on the capacity and on the repeat counts: the small ones, and the
\* largest a WORD holds
WithinBounds(r) ==
    /\ r.InputBufferSize <= MaxBufferSize
    /\ \A i \in 1..Len(r.InputBuffer) :
          \/ r.InputBuffer[i].wRepeatCount <= MaxRepeat
          \/ r.InputBuffer[i].wRepeatCount = WORD_MAX

(***************************************************************************)
(* The wait queue of the readers.                                          *)
(***************************************************************************)
\* ConsoleWaitQueue::NotifyWaiters: the waiters of queue that the call notifies.  The
\* specification has the notification reach every waiter of the queue; what the argument
\* selects is settled in the wait queue's own source.
NotifyWaiters(queue, fNotifyAll) == queue

\* a faulty wake-up: only the reader that has waited longest is notified
WakeUpFirstReader ==
    LET first == IF WaitQueue = {}
                 THEN {}
                 ELSE {CHOOSE t \in WaitQueue : \A u \in WaitQueue : t <= u}
    IN  /\ WaitQueue' = WaitQueue \ first
        /\ woken' = woken \cup first

\* INPUT_INFORMATION::WakeUpReadersWaitingForData
WakeUpReadersWaitingForData ==
    /\ WaitQueue' = WaitQueue \ NotifyWaiters(WaitQueue, FALSE)
    /\ woken' = woken \cup NotifyWaiters(WaitQueue, FALSE)

(***************************************************************************)
(* INPUT_INFORMATION::WriteInputBuffer                                     *)
(***************************************************************************)
WriteInputBuffer(pInputRecord, allocs, observe) ==
    LET pp == PreprocessInput(pInputRecord, Flags, InputMode)
        w == WriteBuffer(Ring, pp.recs, allocs, NoGarbage)
    IN  IF pp.recs = <<>>
        THEN /\ Flags' = pp.Flags
             /\ calls' = Call(observe, "WriteInputBuffer",
                              [Args(pp.recs, 0, FALSE, FALSE, FALSE)
                                  EXCEPT !.input = pInputRecord],
                              Results(0, <<>>, FALSE, STATUS_SUCCESS,
                                      0,
                                      FALSE))
             /\ UNCHANGED <<ringVars, InputWaitEvent, InputMode, ReadCount, waitVars>>
        ELSE /\ WithinBounds(w.ring)
             /\ SetRing(w.ring)
             /\ InputWaitEvent' = (IF w.SetWaitEvent THEN TRUE ELSE InputWaitEvent)
             /\ WakeUpReadersWaitingForData
             /\ Flags' = pp.Flags
             /\ calls' = Call(observe, "WriteInputBuffer",
                              [Args(pp.recs, Len(pp.recs), FALSE, FALSE, FALSE)
                                  EXCEPT !.input = pInputRecord],
                              [Results(w.EventsWritten, <<>>, w.SetWaitEvent, w.Status,
                                       w.Grows,
                                       Coalesce(Ring, pp.recs) # {})
                                  EXCEPT !.Resized = w.Resized, !.Notified = TRUE,
                                         !.Woken = WaitQueue \ WaitQueue'])
             /\ UNCHANGED <<InputMode, ReadCount>>

(***************************************************************************)
(* INPUT_INFORMATION::ReadInputBuffer.  waitStatus is what                 *)
(* WaitForMoreToRead returns when it is called: CONSOLE_STATUS_WAIT when   *)
(* the wait is registered, an error otherwise.                             *)
(***************************************************************************)
\* a faulty count: a wait that could not be registered leaves the count incremented
ReadCountAfterWaitKept(count, waitStatus) == count + 1

\* the read count of the handle after IncrementReadCount, WaitForMoreToRead and, when
\* that failed with anything but CONSOLE_STATUS_WAIT, DecrementReadCount
ReadCountAfterWait(count, waitStatus) ==
    IF waitStatus # CONSOLE_STATUS_WAIT
    THEN (count + 1) - 1
    ELSE count + 1

\* a faulty return on no data: the reader is made to wait although it asked not to
ReadNoDataWaits(Length, fPeek, fStreamRead, fUnicode, observe) ==
    /\ ReadCount < MaxReadCount
    /\ ReadCount' = ReadCount + 1
    /\ calls' = Call(observe, "ReadInputBuffer",
                     Args(<<>>, Length, fPeek, fStreamRead, fUnicode),
                     [Results(0, <<>>, FALSE, CONSOLE_STATUS_WAIT,
                              0,
                              FALSE)
                         EXCEPT !.Waited = TRUE])
    /\ UNCHANGED <<ringVars, InputWaitEvent, InputMode, Flags>>

\* ReadInputBuffer on an empty buffer without fWaitForData
ReadNoData(Length, fPeek, fStreamRead, fUnicode, observe) ==
    /\ calls' = Call(observe, "ReadInputBuffer",
                     Args(<<>>, Length, fPeek, fStreamRead, fUnicode),
                     Results(0, <<>>, FALSE, STATUS_SUCCESS,
                             0,
                             FALSE))
    /\ UNCHANGED <<ringVars, InputWaitEvent, InputMode, Flags, ReadCount>>

\* ReadInputBuffer on an empty buffer with fWaitForData
ReadWait(Length, fPeek, fStreamRead, fUnicode, waitStatus, observe) ==
    /\ ReadCount < MaxReadCount
    /\ ReadCount' = ReadCountAfterWait(ReadCount, waitStatus)
    /\ calls' = Call(observe, "ReadInputBuffer",
                     [Args(<<>>, Length, fPeek, fStreamRead, fUnicode)
                         EXCEPT !.WaitForData = TRUE],
                     [Results(0, <<>>, FALSE, waitStatus,
                              0,
                              FALSE)
                         EXCEPT !.Waited = TRUE])
    /\ UNCHANGED <<ringVars, InputWaitEvent, InputMode, Flags>>

ReadInputBuffer(Length, fPeek, fWaitForData, fStreamRead, fUnicode, waitStatus, observe) ==
    IF In = Out
    THEN IF ~fWaitForData
         THEN ReadNoData(Length, fPeek, fStreamRead, fUnicode, observe)
         ELSE ReadWait(Length, fPeek, fStreamRead, fUnicode, waitStatus, observe)
    ELSE LET rd == ReadBuffer(Ring, Length, fPeek, fStreamRead, fUnicode)
         IN  /\ SetRing([Ring EXCEPT !.Out = rd.Out])
             /\ InputWaitEvent' = (IF rd.ResetWaitEvent THEN FALSE ELSE InputWaitEvent)
             /\ calls' = Call(observe, "ReadInputBuffer",
                              [Args(<<>>, Length, fPeek, fStreamRead, fUnicode)
                                  EXCEPT !.WaitForData = fWaitForData],
                              Results(rd.EventsRead, rd.Buffer, rd.ResetWaitEvent, rd.Status,
                                      0,
                                      FALSE))
             /\ UNCHANGED <<InputMode, Flags, ReadCount>>

\* a faulty FlushInputBuffer: the wait event is left as it was
FlushInputBufferKeepsEvent(observe) ==
    /\ SetRing([Ring EXCEPT !.In = First, !.Out = First])
    /\ calls' = Call(observe, "FlushInputBuffer",
                     NoArgs,
                     Results(0, <<>>, FALSE, STATUS_SUCCESS,
                             0,
                             FALSE))
    /\ UNCHANGED <<InputWaitEvent, InputMode, Flags, ReadCount>>

\* INPUT_INFORMATION::FlushInputBuffer
FlushInputBuffer(observe) ==
    /\ SetRing([Ring EXCEPT !.In = First, !.Out = First])
    /\ InputWaitEvent' = FALSE
    /\ calls' = Call(observe, "FlushInputBuffer",
                     NoArgs,
                     Results(0, <<>>, FALSE, STATUS_SUCCESS,
                             0,
                             FALSE))
    /\ UNCHANGED <<InputMode, Flags, ReadCount>>

\* INPUT_INFORMATION::ReinitializeInputBuffer
ReinitializeInputBuffer(observe) ==
    /\ InputWaitEvent' = FALSE
    /\ InputMode' = DefaultInputMode
    /\ SetRing([Ring EXCEPT !.In = First, !.Out = First])
    /\ calls' = Call(observe, "ReinitializeInputBuffer",
                     NoArgs,
                     Results(0, <<>>, FALSE, STATUS_SUCCESS,
                             0,
                             FALSE))
    /\ UNCHANGED <<Flags, ReadCount>>

\* INPUT_INFORMATION::FlushAllButKeys; allocated is the outcome of new BYTE[]
FlushAllButKeys(allocated, observe) ==
    IF In # Out
    THEN IF ~allocated
         THEN /\ calls' = Call(observe, "FlushAllButKeys",
                               NoArgs,
                               Results(0, <<>>, FALSE, STATUS_NO_MEMORY,
                                       0,
                                       FALSE))
              /\ UNCHANGED <<ringVars, InputWaitEvent, InputMode, Flags, ReadCount>>
         ELSE LET rd == ReadBuffer(Ring, InputBufferSize, TRUE, FALSE, TRUE)
                  kept == KeepKeys(InputBuffer, InputBufferSize, rd.Buffer, 0, 0)
              IN  /\ SetRing([Ring EXCEPT !.InputBuffer = kept.InputBuffer, !.Out = 0,
                                           !.In = kept.InPtr])
                  /\ InputWaitEvent' = (IF kept.InPtr = 0 THEN FALSE ELSE InputWaitEvent)
                  /\ calls' = Call(observe, "FlushAllButKeys",
                                   NoArgs,
                                   Results(rd.EventsRead, rd.Buffer, FALSE, STATUS_SUCCESS,
                                           0,
                                           FALSE))
                  /\ UNCHANGED <<InputMode, Flags, ReadCount>>
    ELSE /\ calls' = Call(observe, "FlushAllButKeys",
                          NoArgs,
                          Results(0, <<>>, FALSE, STATUS_SUCCESS,
                                  0,
                                  FALSE))
         /\ UNCHANGED <<ringVars, InputWaitEvent, InputMode, Flags, ReadCount>>

(***************************************************************************)
(* INPUT_INFORMATION::PrependInputBuffer.  allocated is the outcome of the *)
(* allocation of the copy of the existing events; allocs1 and allocs2 are  *)
(* the outcomes of the allocations of the two WriteBuffer calls.           *)
(***************************************************************************)
\* faulty WriteBuffer calls: a write-back that cannot grow the buffer puts none of the
\* events that were there back
PrependWritesAllOrNone(r, recs, allocs1, allocs2) ==
    LET NumExistingEvents == GetNumberOfReadyEvents(r)
        rd == ReadBuffer(r, NumExistingEvents, FALSE, FALSE, TRUE)
        emptied == IF NumExistingEvents # 0 THEN [r EXCEPT !.Out = rd.Out] ELSE r
        pExistingEvents == IF NumExistingEvents # 0 THEN rd.Buffer ELSE <<>>
        w1 == WriteBuffer(emptied, recs, allocs1, NoGarbage)
        w2 == WriteBuffer(w1.ring, pExistingEvents, allocs2, NoGarbage)
    IN  [pExistingEvents |-> pExistingEvents, w1 |-> w1,
         w2 |-> IF NT_SUCCESS(w2.Status) THEN w2 ELSE [w2 EXCEPT !.ring = w1.ring]]

\* faulty WriteBuffer calls: the events that were there go in first, then the new ones
PrependWritesOldFirst(r, recs, allocs1, allocs2) ==
    LET NumExistingEvents == GetNumberOfReadyEvents(r)
        rd == ReadBuffer(r, NumExistingEvents, FALSE, FALSE, TRUE)
        emptied == IF NumExistingEvents # 0 THEN [r EXCEPT !.Out = rd.Out] ELSE r
        pExistingEvents == IF NumExistingEvents # 0 THEN rd.Buffer ELSE <<>>
        w2 == WriteBuffer(emptied, pExistingEvents, allocs2, NoGarbage)
        w1 == WriteBuffer(w2.ring, recs, allocs1, NoGarbage)
    IN  [pExistingEvents |-> pExistingEvents, w1 |-> w1, w2 |-> w1]

\* the two WriteBuffer calls of PrependInputBuffer: the new events into the emptied
\* buffer (w1), then the events that were there (w2)
PrependWrites(r, recs, allocs1, allocs2) ==
    LET NumExistingEvents == GetNumberOfReadyEvents(r)
        rd == ReadBuffer(r, NumExistingEvents, FALSE, FALSE, TRUE)
        emptied == IF NumExistingEvents # 0 THEN [r EXCEPT !.Out = rd.Out] ELSE r
        pExistingEvents == IF NumExistingEvents # 0 THEN rd.Buffer ELSE <<>>
        w1 == WriteBuffer(emptied, recs, allocs1, NoGarbage)
        w2 == WriteBuffer(w1.ring, pExistingEvents, allocs2, NoGarbage)
    IN  [pExistingEvents |-> pExistingEvents, w1 |-> w1, w2 |-> w2]

\* a faulty failure path: the existing events are read out before the copy is allocated
PrependCopyFailedEmptied(recs, flags, Status, observe) ==
    /\ Flags' = flags
    /\ SetRing([Ring EXCEPT !.Out = In])
    /\ calls' = Call(observe, "PrependInputBuffer",
                     Args(recs, Len(recs), FALSE, FALSE, FALSE),
                     Results(0, <<>>, FALSE, Status,
                             0,
                             FALSE))
    /\ UNCHANGED <<InputWaitEvent, InputMode, ReadCount, waitVars>>

\* PrependInputBuffer when the copy of the existing events cannot be sized or allocated:
\* the call returns Status; recs and flags are what PreprocessInput left
PrependCopyFailed(recs, flags, Status, observe) ==
    /\ Flags' = flags
    /\ calls' = Call(observe, "PrependInputBuffer",
                     Args(recs, Len(recs), FALSE, FALSE, FALSE),
                     Results(0, <<>>, FALSE, Status,
                             0,
                             FALSE))
    /\ UNCHANGED <<ringVars, InputWaitEvent, InputMode, ReadCount, waitVars>>

PrependInputBuffer(pInputRecord, allocated, allocs1, allocs2, observe) ==
    LET pp == PreprocessInput(pInputRecord, Flags, InputMode)
        cInputRecords == Len(pp.recs)
        NumExistingEvents == GetNumberOfReadyEvents(Ring)
        writes == PrependWrites(Ring, pp.recs, allocs1, allocs2)
        pExistingEvents == writes.pExistingEvents
        w1 == writes.w1
        w2 == writes.w2
        final == IF NumExistingEvents # 0 THEN w2.ring ELSE w1.ring
    IN  IF cInputRecords = 0
        THEN /\ Flags' = pp.Flags
             /\ calls' = Call(observe, "PrependInputBuffer",
                              Args(pp.recs, 0, FALSE, FALSE, FALSE),
                              Results(0, <<>>, FALSE, STATUS_SUCCESS,
                                      0,
                                      FALSE))
             /\ UNCHANGED <<ringVars, InputWaitEvent, InputMode, ReadCount, waitVars>>
        ELSE IF NumExistingEvents # 0 /\ ~DWordMult(NumExistingEvents, SizeofInputRecord).ok
        THEN PrependCopyFailed(pp.recs, pp.Flags, STATUS_INTEGER_OVERFLOW, observe)
        ELSE IF NumExistingEvents # 0 /\ ~allocated
        THEN PrependCopyFailed(pp.recs, pp.Flags, STATUS_NO_MEMORY, observe)
        ELSE /\ WithinBounds(final)
             /\ SetRing(final)
             /\ InputWaitEvent' = (IF w1.SetWaitEvent THEN TRUE ELSE InputWaitEvent)
             /\ WakeUpReadersWaitingForData
             /\ Flags' = pp.Flags
             /\ calls' = Call(observe, "PrependInputBuffer",
                              Args(pp.recs, cInputRecords, FALSE, FALSE, FALSE),
                              [Results(cInputRecords, pExistingEvents, w1.SetWaitEvent, STATUS_SUCCESS,
                                       w1.Grows + (IF NumExistingEvents # 0 THEN w2.Grows ELSE 0),
                                       NumExistingEvents # 0 /\ Coalesce(w1.ring, pExistingEvents) # {})
                                  EXCEPT !.Resized = w1.Resized
                                             + (IF NumExistingEvents # 0 THEN w2.Resized ELSE 0),
                                         !.Notified = TRUE,
                                         !.Woken = WaitQueue \ WaitQueue'])
             /\ UNCHANGED <<InputMode, ReadCount>>

(***************************************************************************)
(* A call of SetInputBufferSize by itself, with a Size above the capacity. *)
(***************************************************************************)
GarbageRecords == {KeyA, Click55}

ResizeInputBuffer(Size, allocated, garbage, observe) ==
    LET res == SetInputBufferSize(Ring, Size, allocated, garbage)
    IN  /\ Size > InputBufferSize
        /\ SetRing(res.ring)
        /\ calls' = Call(observe, "SetInputBufferSize",
                         Args(<<>>, Size, FALSE, FALSE, FALSE),
                         Results(GetNumberOfReadyEvents(res.ring), <<>>, FALSE, res.Status,
                                 1,
                                 FALSE))
        /\ UNCHANGED <<InputWaitEvent, InputMode, Flags, ReadCount>>

(***************************************************************************)
(* The construction of a new input buffer in place of the one there is;    *)
(* allocated is the outcome of new BYTE[].  The constructor takes the      *)
(* handle of the wait event as it is, and the read count belongs to the    *)
(* reading handle.                                                         *)
(***************************************************************************)
CreateInputBuffer(cEvents, allocated, observe) ==
    IF ~allocated
    THEN /\ calls' = Call(observe, "INPUT_INFORMATION",
                          Args(<<>>, cEvents, FALSE, FALSE, FALSE),
                          Results(0, <<>>, FALSE, STATUS_NO_MEMORY,
                                  0,
                                  FALSE))
         /\ UNCHANGED <<ringVars, InputWaitEvent, InputMode, Flags, ReadCount>>
    ELSE /\ SetRing(Construct(cEvents))
         /\ InputMode' = DefaultInputMode
         /\ calls' = Call(observe, "INPUT_INFORMATION",
                          Args(<<>>, cEvents, FALSE, FALSE, FALSE),
                          Results(0, <<>>, FALSE, STATUS_SUCCESS,
                                  0,
                                  FALSE))
         /\ UNCHANGED <<InputWaitEvent, Flags, ReadCount>>

(***************************************************************************)
(* HandleMouseEvent: the window procedure hands over a mouse message.      *)
(* selection is what the Selection answers, MousePosition the position in  *)
(* characters, fShiftPressed the state of the shift key, handled whether   *)
(* the virtual terminal took the event.  The BOOL returned tells whether   *)
(* DefWindowProc is to be called; the observation keeps it as flag.        *)
(***************************************************************************)
ButtonDowns == {"WM_LBUTTONDOWN", "WM_MBUTTONDOWN", "WM_RBUTTONDOWN"}
ButtonUps == {"WM_LBUTTONUP", "WM_MBUTTONUP", "WM_RBUTTONUP"}

\* dwEventFlags of the record made for a message
EventFlagsOf(Message) ==
    CASE Message = "WM_MOUSEMOVE" -> MOUSE_MOVED
      [] Message \in {"WM_LBUTTONDBLCLK", "WM_RBUTTONDBLCLK", "WM_MBUTTONDBLCLK"} -> "DOUBLE_CLICK"
      [] Message = "WM_MOUSEWHEEL" -> "MOUSE_WHEELED"
      [] Message = "WM_MOUSEHWHEEL" -> "MOUSE_HWHEELED"
      [] OTHER -> "0"

\* a return of HandleMouseEvent that writes nothing: the console flags become flags
MouseReturns(Message, selection, ret, flags, observe) ==
    /\ Flags' = flags
    /\ calls' = Call(observe, "HandleMouseEvent",
                     [NoArgs EXCEPT !.Message = Message, !.Selection = selection],
                     Results(0, <<>>, ret, STATUS_SUCCESS,
                             0,
                             FALSE))
    /\ UNCHANGED <<ringVars, InputWaitEvent, InputMode, ReadCount, waitVars>>

\* the messages handled while a selection is made or the quick edit mode is on
HandleMouseSelection(Message, selection, observe) ==
    IF Message \in {"WM_RBUTTONDOWN", "WM_RBUTTONDBLCLK"} /\ ~selection.IsMouseButtonDown
    THEN MouseReturns(Message, selection, FALSE,
                      Flags \cup {CONSOLE_IGNORE_NEXT_MOUSE_INPUT}, observe)
    ELSE MouseReturns(Message, selection,
                      Message \in {"WM_MOUSEWHEEL", "WM_MOUSEHWHEEL"}, Flags, observe)

\* HandleMouseEvent
HandleMouseEvent(Message, MousePosition, selection, fShiftPressed, handled, allocs, observe) ==
    IF CONSOLE_HAS_FOCUS \notin Flags /\ ~selection.IsMouseButtonDown
    THEN MouseReturns(Message, selection, TRUE, Flags, observe)
    ELSE IF CONSOLE_IGNORE_NEXT_MOUSE_INPUT \in Flags
    THEN IF Message \notin ButtonDowns
         THEN MouseReturns(Message, selection, FALSE,
                           Flags \ {CONSOLE_IGNORE_NEXT_MOUSE_INPUT}, observe)
         ELSE MouseReturns(Message, selection, TRUE, Flags, observe)
    ELSE IF ~fShiftPressed /\ ~selection.IsInSelectingState /\ handled
    THEN MouseReturns(Message, selection, FALSE, Flags, observe)
    ELSE IF selection.IsInSelectingState \/ selection.IsInQuickEditMode
    THEN HandleMouseSelection(Message, selection, observe)
    ELSE IF ENABLE_MOUSE_INPUT \notin InputMode
    THEN MouseReturns(Message, selection, TRUE, Flags, observe)
    ELSE WriteInputBuffer(<<MouseRecord(MousePosition.X, MousePosition.Y,
                                        EventFlagsOf(Message),
                                        IF fShiftPressed THEN {"SHIFT_PRESSED"} ELSE {})>>,
                          allocs, observe)

\* the window gets or loses the focus
SetFocus(focus) ==
    /\ Flags' = (IF focus THEN Flags \cup {CONSOLE_HAS_FOCUS}
                          ELSE Flags \ {CONSOLE_HAS_FOCUS})
    /\ UNCHANGED <<ringVars, InputWaitEvent, InputMode, ReadCount, calls, waitVars>>

(***************************************************************************)
(* VtEngine: the invalid region.  The operators take the tracker, the      *)
(* record of _invalidRect (rect) and _fInvalidRectUsed (used), and the     *)
(* viewport, and yield the tracker after the call and the HRESULT.         *)
(***************************************************************************)
Tracker == [rect |-> _invalidRect, used |-> _fInvalidRectUsed]

\* a faulty _InvalidRestrict: the region is trimmed to the viewport where it is, not to
\* the viewport moved to the origin
_InvalidRestrictInPlace(rect, viewport) ==
    FromExclusive(TrimToViewport(viewport, ToExclusive(rect)))

\* VtEngine::_InvalidRestrict
_InvalidRestrict(rect, viewport) ==
    LET oldInvalid == ToExclusive(rect)
    IN  FromExclusive(TrimToViewport(ToOrigin(viewport), oldInvalid))

\* a faulty _InvalidCombine: the region given replaces the one there is
_InvalidCombineReplaces(t, viewport, invalid) ==
    [rect |-> _InvalidRestrict(invalid, viewport), used |-> TRUE, hr |-> S_OK]

\* VtEngine::_InvalidCombine
_InvalidCombine(t, viewport, invalid) ==
    LET combined == IF ~t.used THEN invalid ELSE OrViewports(t.rect, invalid)
    IN  [rect |-> _InvalidRestrict(combined, viewport), used |-> TRUE, hr |-> S_OK]

\* VtEngine::Invalidate
Invalidate(t, viewport, psrRegion) ==
    _InvalidCombine(t, viewport, FromExclusive(psrRegion))

\* a faulty InvalidateAll: the viewport is taken where it is
InvalidateAllInPlace(t, viewport) ==
    _InvalidCombine(t, viewport, viewport)

\* VtEngine::InvalidateAll
InvalidateAll(t, viewport) ==
    _InvalidCombine(t, viewport, ToOrigin(viewport))

\* a faulty _InvalidOffset: the region is moved, and what it vacates is forgotten
_InvalidOffsetMoves(t, viewport, pCoord) ==
    LET moved == AddCoord(t.rect, pCoord)
    IN  IF ~t.used
        THEN [rect |-> t.rect, used |-> t.used, hr |-> S_OK]
        ELSE IF ~SUCCEEDED(moved.hr)
        THEN [rect |-> t.rect, used |-> t.used, hr |-> moved.hr]
        ELSE [rect |-> _InvalidRestrict(moved.modified, viewport), used |-> t.used,
              hr |-> S_OK]

\* VtEngine::_InvalidOffset
_InvalidOffset(t, viewport, pCoord) ==
    LET moved == AddCoord(t.rect, pCoord)
        newInvalid == moved.modified
    IN  IF ~t.used
        THEN [rect |-> t.rect, used |-> t.used, hr |-> S_OK]
        ELSE IF ~SUCCEEDED(moved.hr)
        THEN [rect |-> t.rect, used |-> t.used, hr |-> moved.hr]
        ELSE [rect |-> _InvalidRestrict(OrViewports(t.rect, newInvalid), viewport),
              used |-> t.used, hr |-> S_OK]

\* no region and no offset, in the observation of a call that takes none
NoRect == SmallRect(0, 0, 0, 0)
NoCoord == [X |-> 0, Y |-> 0]

\* VtEngine: what the engine keeps of the cursor
CursorTracker ==
    [virtualTop |-> _virtualTop, skipCursor |-> _skipCursor, cursorMoved |-> _cursorMoved]

\* a faulty InvalidateCursor: the call after the cursor was inherited is not ignored
InvalidateCursorNoSkip(c, pcoordCursor) ==
    [virtualTop |-> IF c.virtualTop > pcoordCursor.Y THEN pcoordCursor.Y ELSE c.virtualTop,
     skipCursor |-> FALSE, cursorMoved |-> TRUE, hr |-> S_OK]

\* VtEngine::InvalidateCursor
InvalidateCursor(c, pcoordCursor) ==
    [virtualTop |-> IF ~c.skipCursor /\ c.virtualTop > pcoordCursor.Y
                    THEN pcoordCursor.Y
                    ELSE c.virtualTop,
     skipCursor |-> FALSE, cursorMoved |-> TRUE, hr |-> S_OK]

\* what a call observed keeps of the state it was made in
EngineState ==
    [rect |-> _invalidRect, used |-> _fInvalidRectUsed, viewport |-> _lastViewport,
     virtualTop |-> _virtualTop, skipCursor |-> _skipCursor, cursorMoved |-> _cursorMoved]

\* a call of the engine about the cursor that left the cursor tracker as res
CursorCall(op, pCoord, res, observe) ==
    /\ _virtualTop' = res.virtualTop
    /\ _skipCursor' = res.skipCursor
    /\ _cursorMoved' = res.cursorMoved
    /\ vtCalls' = IF ~observe THEN vtCalls ELSE
                  Append(vtCalls,
                         [op |-> op, psrRegion |-> NoRect, pCoord |-> pCoord,
                          pre |-> EngineState, hr |-> res.hr])
    /\ UNCHANGED <<_invalidRect, _fInvalidRectUsed, _lastViewport>>

\* the engine takes over the cursor of the terminal it is attached to: the cursor's row
\* is the top, and the InvalidateCursor that follows is to be ignored
InheritCursor(coordCursor) ==
    /\ _virtualTop' = coordCursor.Y
    /\ _skipCursor' = TRUE
    /\ UNCHANGED <<_invalidRect, _fInvalidRectUsed, _lastViewport, _cursorMoved, vtCalls>>

\* a call of the engine that left the tracker as res; the observed ones are kept with
\* the state they were made in
EngineCall(op, psrRegion, pCoord, res, observe) ==
    /\ _invalidRect' = res.rect
    /\ _fInvalidRectUsed' = res.used
    /\ vtCalls' = IF ~observe THEN vtCalls ELSE
                  Append(vtCalls,
                         [op |-> op, psrRegion |-> psrRegion, pCoord |-> pCoord,
                          pre |-> EngineState, hr |-> res.hr])
    /\ UNCHANGED <<_lastViewport, cursorVars>>

\* the paint of a frame: the region is read and the tracker is reset to no damage, the
\* cursor to not moved
Paint ==
    /\ _invalidRect' = ZeroViewport
    /\ _fInvalidRectUsed' = FALSE
    /\ _cursorMoved' = FALSE
    /\ UNCHANGED <<_lastViewport, _virtualTop, _skipCursor, vtCalls>>

\* the renderer gives the engine another viewport
UpdateViewport(srNewViewport) ==
    /\ _lastViewport' = srNewViewport
    /\ UNCHANGED <<_invalidRect, _fInvalidRectUsed, cursorVars, vtCalls>>

(***************************************************************************)
(* The inputs.                                                             *)
(***************************************************************************)
\* the requests of more than one record: the runs of Pattern, up to MaxBatch long
Pattern == <<KeyA, Move55, KeyA, KeyA, Move55, Move66, KeyA, Move55>>
Runs == {SubSeq(Pattern, from, from + k - 1) : from \in 1..3, k \in 2..MaxBatch}

Singles(S) == {<<rec>> : rec \in S}

WriteRecords == {KeyA, Move55, Move66}
WriteRequests == Singles(WriteRecords) \cup Runs
PrependRequests == Singles(WriteRecords) \cup {<<KeyA, Move55>>}
MouseRequests == Singles({Move55, MoveShift66, Click55}) \cup {<<Move55, Click55>>}
AllocOutcomes == [1..2 -> BOOLEAN]


(***************************************************************************)
(* The calls of the interface, made one after the other under the console  *)
(* lock, up to the first observed one.                                     *)
(***************************************************************************)
WriteOf(requests) ==
    /\ calls = <<>>
    /\ \E pInputRecord \in requests, allocs \in AllocOutcomes, observe \in BOOLEAN :
          WriteInputBuffer(pInputRecord, allocs, observe)
    /\ UNCHANGED <<histVars, lockVars, vtVars>>

Write == WriteOf(WriteRequests)

ReadOf(observes) ==
    /\ calls = <<>>
    /\ \E Length \in 0..MaxRead, fPeek \in BOOLEAN, fStreamRead \in BOOLEAN,
          fUnicode \in BOOLEAN, observe \in observes :
          /\ fStreamRead => Length = 1
          /\ ReadInputBuffer(Length, fPeek, FALSE, fStreamRead, fUnicode,
                             CONSOLE_STATUS_WAIT, observe)
    /\ UNCHANGED <<histVars, waitVars, lockVars, vtVars>>

Read == ReadOf(BOOLEAN)

Flush ==
    /\ calls = <<>>
    /\ \E observe \in BOOLEAN : FlushInputBuffer(observe)
    /\ UNCHANGED <<histVars, waitVars, lockVars, vtVars>>

FlushKeys ==
    /\ calls = <<>>
    /\ \E allocated \in BOOLEAN, observe \in BOOLEAN : FlushAllButKeys(allocated, observe)
    /\ UNCHANGED <<histVars, waitVars, lockVars, vtVars>>

Reinitialize ==
    /\ calls = <<>>
    /\ \E observe \in BOOLEAN : ReinitializeInputBuffer(observe)
    /\ UNCHANGED <<histVars, waitVars, lockVars, vtVars>>

PrependWith(requests, outcomes, observes) ==
    /\ calls = <<>>
    /\ \E pInputRecord \in requests, allocated \in BOOLEAN, allocs1 \in outcomes,
          allocs2 \in {<<TRUE, TRUE>>, <<FALSE, FALSE>>}, observe \in observes :
          PrependInputBuffer(pInputRecord, allocated, allocs1, allocs2, observe)
    /\ UNCHANGED <<histVars, lockVars, vtVars>>

PrependOf(requests, outcomes) == PrependWith(requests, outcomes, {FALSE})

Prepend == PrependOf(PrependRequests, {<<TRUE, TRUE>>, <<FALSE, FALSE>>})

Next ==
    \/ Write
    \/ Read
    \/ Flush
    \/ FlushKeys
    \/ Reinitialize
    \/ Prepend

Spec == Init /\ [][Next]_vars

(***************************************************************************)
(* SpecResize: the interface together with SetInputBufferSize called by    *)
(* itself, in any state, with any larger size, the sizes whose byte count   *)
(* overflows included; the requests are of one or two records.             *)
(***************************************************************************)
\* sizes whose byte count overflows the word
OverflowSizes == {ULONG_MAX \div SizeofInputRecord, ULONG_MAX - 1}

Resize ==
    /\ calls = <<>>
    /\ \E Size \in ((InputBufferSize + 1)..MaxBufferSize) \cup OverflowSizes,
          allocated \in BOOLEAN, observe \in BOOLEAN :
          \E garbage \in [1..(IF In = Out THEN Last - First ELSE 0) -> GarbageRecords] :
             ResizeInputBuffer(Size, allocated, garbage, observe)
    /\ UNCHANGED <<histVars, waitVars, lockVars, vtVars>>

PrependOne == PrependOf(Singles(WriteRecords), {<<TRUE, TRUE>>, <<FALSE, FALSE>>})

WriteFew == WriteOf(PrependRequests)
ReadUnobserved == ReadOf({FALSE})

NextResize ==
    \/ WriteFew
    \/ ReadUnobserved
    \/ Flush
    \/ FlushKeys
    \/ Reinitialize
    \/ PrependOne
    \/ Resize

SpecResize == Init /\ [][NextResize]_vars

(***************************************************************************)
(* SpecCreate: writes and reads, and the buffer constructed anew with any  *)
(* hint: the small ones, the first whose byte size overflows the word, and *)
(* the one whose slot count does.                                          *)
(***************************************************************************)
CreateHints == (0..MaxBufferSize) \cup {ULONG_MAX \div SizeofInputRecord, ULONG_MAX}

Create ==
    /\ calls = <<>>
    /\ \E cEvents \in CreateHints, allocated \in BOOLEAN, observe \in BOOLEAN :
          CreateInputBuffer(cEvents, allocated, observe)
    /\ UNCHANGED <<histVars, waitVars, lockVars, vtVars>>

NextCreate ==
    \/ Create
    \/ WriteFew
    \/ ReadUnobserved

SpecCreate == Init /\ [][NextCreate]_vars

(***************************************************************************)
(* SpecPrepend: writes, reads and prepends, and an observed prepend        *)
(* followed at once by an observed read of as many records as the call     *)
(* was given and found.                                                    *)
(***************************************************************************)
PrependObserved == PrependWith(PrependRequests, AllocOutcomes, {TRUE})

ReadAfterPrepend ==
    /\ Len(calls) = 1
    /\ calls[1].op = "PrependInputBuffer"
    /\ \E fPeek \in BOOLEAN :
          ReadInputBuffer(Len(calls[1].recs) + Len(calls[1].preQueue), fPeek, FALSE, FALSE,
                          TRUE, CONSOLE_STATUS_WAIT, TRUE)
    /\ UNCHANGED <<histVars, waitVars, lockVars, vtVars>>

\* the writes, the reads and the prepends that bring the buffer to the state the observed
\* prepend is made in: none of them observed, the reads taking the records out, the
\* writes and the prepends made while few records are queued
WriteQuiet ==
    /\ calls = <<>>
    /\ GetNumberOfReadyEvents(Ring) <= MaxQueued
    /\ \E pInputRecord \in PrependRequests, allocs \in {<<TRUE, TRUE>>, <<FALSE, FALSE>>} :
          WriteInputBuffer(pInputRecord, allocs, FALSE)
    /\ UNCHANGED <<histVars, lockVars, vtVars>>

ReadQuiet ==
    /\ calls = <<>>
    /\ \E Length \in 1..MaxRead :
          ReadInputBuffer(Length, FALSE, FALSE, FALSE, TRUE, CONSOLE_STATUS_WAIT, FALSE)
    /\ UNCHANGED <<histVars, waitVars, lockVars, vtVars>>

PrependQuiet ==
    /\ GetNumberOfReadyEvents(Ring) <= MaxQueued
    /\ PrependOne

NextPrepend ==
    \/ WriteQuiet
    \/ ReadQuiet
    \/ PrependQuiet
    \/ PrependObserved
    \/ ReadAfterPrepend

SpecPrepend == Init /\ [][NextPrepend]_vars

(***************************************************************************)
(* SpecWait: writes, flushes and reads that may ask to wait for data, with *)
(* either outcome of the registration of the wait.                         *)
(***************************************************************************)
WaitStatuses == {CONSOLE_STATUS_WAIT, STATUS_NO_MEMORY}

ReadWaiting ==
    /\ calls = <<>>
    /\ \E Length \in 0..MaxRead, fPeek \in BOOLEAN, fWaitForData \in BOOLEAN,
          fStreamRead \in BOOLEAN, fUnicode \in BOOLEAN, waitStatus \in WaitStatuses,
          observe \in BOOLEAN :
          /\ fStreamRead => Length = 1
          /\ ReadInputBuffer(Length, fPeek, fWaitForData, fStreamRead, fUnicode,
                             waitStatus, observe)
    /\ UNCHANGED <<histVars, waitVars, lockVars, vtVars>>

NextWait ==
    \/ WriteFew
    \/ ReadWaiting
    \/ Flush

SpecWait == Init /\ [][NextWait]_vars

(***************************************************************************)
(* SpecMouse: the interface with mouse events written.                     *)
(***************************************************************************)
WriteMouse == WriteOf(MouseRequests)

NextMouse ==
    \/ WriteMouse
    \/ Read
    \/ Flush

SpecMouse == Init /\ [][NextMouse]_vars

(***************************************************************************)
(* SpecRoundTrip: an observed write into an empty buffer, followed at once *)
(* by an observed read.                                                    *)
(***************************************************************************)
ReadBack ==
    /\ Len(calls) = 1
    /\ calls[1].op = "WriteInputBuffer"
    /\ calls[1].pre.In = calls[1].pre.Out
    /\ \E Length \in 0..MaxRead, fPeek \in BOOLEAN, fStreamRead \in BOOLEAN,
          fUnicode \in BOOLEAN :
          /\ fStreamRead => Length = 1
          /\ ReadInputBuffer(Length, fPeek, FALSE, fStreamRead, fUnicode,
                             CONSOLE_STATUS_WAIT, TRUE)
    /\ UNCHANGED <<histVars, waitVars, lockVars, vtVars>>

NextRoundTrip ==
    \/ Write
    \/ Read
    \/ Flush
    \/ ReadBack

SpecRoundTrip == Init /\ [][NextRoundTrip]_vars

(***************************************************************************)
(* SpecRW: writes that are not coalesced and non-peek Unicode reads only,   *)
(* with the history of the records written and of the records read.        *)
(***************************************************************************)
RWRequests == Singles({KeyA, Move55}) \cup {<<KeyA, Move55, KeyA>>}

WriteRW ==
    /\ \E pInputRecord \in RWRequests, allocs \in AllocOutcomes :
          LET pp == PreprocessInput(pInputRecord, Flags, InputMode)
              w == WriteBuffer(Ring, pp.recs, allocs, NoGarbage)
          IN  /\ Coalesce(Ring, pp.recs) = {}
              /\ Len(written) + w.EventsWritten <= MaxWrites
              /\ WriteInputBuffer(pInputRecord, allocs, FALSE)
              /\ written' = written \o SubSeq(pp.recs, 1, w.EventsWritten)
    /\ UNCHANGED <<readOut, lockVars, vtVars>>

ReadRW ==
    /\ \E Length \in 0..MaxRead, fStreamRead \in BOOLEAN, observe \in BOOLEAN :
          /\ fStreamRead => Length = 1
          /\ observe => calls = <<>>
          /\ ReadInputBuffer(Length, FALSE, FALSE, fStreamRead, TRUE, CONSOLE_STATUS_WAIT,
                             observe)
          /\ readOut' = (IF In = Out
                         THEN readOut
                         ELSE readOut \o ReadBuffer(Ring, Length, FALSE, fStreamRead,
                                                    TRUE).Buffer)
    /\ UNCHANGED <<written, waitVars, lockVars, vtVars>>

NextRW ==
    \/ WriteRW
    \/ ReadRW

SpecRW == Init /\ [][NextRW]_vars

(***************************************************************************)
(* SpecKeys: writes of keys (down and up, full-width) and of moves, one     *)
(* record or two at a time, into a buffer that holds at most MaxQueued     *)
(* records before the write; reads of every mode.                          *)
(***************************************************************************)
KeysRecords == {KeyA, KeyAUp, KeyWide, Move55}
KeysRequests == Singles(KeysRecords) \cup {<<KeyA, KeyA>>, <<Move55, Move66>>}

WriteKeys ==
    /\ GetNumberOfReadyEvents(Ring) <= MaxQueued
    /\ WriteOf(KeysRequests)

NextKeys ==
    \/ WriteKeys
    \/ Read

SpecKeys == Init /\ [][NextKeys]_vars

(***************************************************************************)
(* SpecIme: writes of single keys under IME conversion, which differ in    *)
(* the scan code, in the character or in being a key-up, and of a key      *)
(* outside of the conversion; reads.                                       *)
(***************************************************************************)
KeyImeA == KeyRecord("VK_A", 30, "a", TRUE, 1, {NLS_IME_CONVERSION})
KeyImeB == KeyRecord("VK_B", 48, "b", TRUE, 1, {NLS_IME_CONVERSION})
KeyImeUp == KeyRecord("VK_A", 30, "a", FALSE, 1, {NLS_IME_CONVERSION})

WriteIme ==
    /\ GetNumberOfReadyEvents(Ring) <= MaxQueued
    /\ WriteOf(Singles({KeyA, KeyIme, KeyImeA, KeyImeB, KeyImeUp}))

NextIme ==
    \/ WriteIme
    \/ Read

SpecIme == Init /\ [][NextIme]_vars

(***************************************************************************)
(* SpecRepeat: writes of one key, with a repeat count of one or with the   *)
(* largest repeat count a WORD holds, and reads.                           *)
(***************************************************************************)
KeyMany == KeyRecord("VK_A", 30, "a", TRUE, WORD_MAX, {})

WriteRepeats == WriteOf(Singles({KeyA, KeyMany, Move55}))

NextRepeat ==
    \/ WriteRepeats
    \/ Read

SpecRepeat == Init /\ [][NextRepeat]_vars

(***************************************************************************)
(* SpecPreprocess: writes of one to three records among which are the      *)
(* pause keys, a system key, a key-up and a move, with the output          *)
(* suspended or not and the line input turned on or off; flushes.          *)
(***************************************************************************)
KeyCtrlS == KeyRecord("VK_S", 31, "s", TRUE, 1, {"CTRL_PRESSED"})

PreprocessRecords == {KeyA, KeyPause, KeyShift}
PreprocessRequests ==
    Singles(PreprocessRecords)
       \cup {<<a, b>> : a \in PreprocessRecords, b \in PreprocessRecords}
       \cup {<<KeyCtrlS, KeyA>>, <<KeyShift, KeyAUp>>, <<Move55, KeyPause>>,
             <<KeyPause, KeyA, KeyA>>, <<KeyPause, KeyShift, KeyA>>,
             <<KeyA, KeyCtrlS, KeyAUp>>, <<KeyPause, KeyPause, Move55>>}

WritePreprocessed ==
    /\ calls = <<>>
    /\ GetNumberOfReadyEvents(Ring) <= MaxQueued
    /\ \E pInputRecord \in PreprocessRequests, observe \in BOOLEAN :
          WriteInputBuffer(pInputRecord, <<TRUE, TRUE>>, observe)
    /\ UNCHANGED <<histVars, lockVars, vtVars>>

\* the input mode set by the console API: the line input is turned on or off
SetInputMode ==
    /\ calls = <<>>
    /\ InputMode' = (IF ENABLE_LINE_INPUT \in InputMode
                     THEN InputMode \ {ENABLE_LINE_INPUT}
                     ELSE InputMode \cup {ENABLE_LINE_INPUT})
    /\ UNCHANGED <<ringVars, InputWaitEvent, Flags, ReadCount, calls, histVars, waitVars,
                   lockVars, vtVars>>

NextPreprocess ==
    \/ WritePreprocessed
    \/ Flush
    \/ SetInputMode

SpecPreprocess == Init /\ [][NextPreprocess]_vars

(***************************************************************************)
(* SpecPrependFew: prepends of one or two records onto a buffer that holds *)
(* a few, with the allocations of the two WriteBuffer calls succeeding or  *)
(* failing; writes of single records and reads.                            *)
(***************************************************************************)
WriteSingles ==
    /\ GetNumberOfReadyEvents(Ring) <= MaxQueued
    /\ WriteOf(Singles({KeyA, Move55}))

PrependFew ==
    /\ GetNumberOfReadyEvents(Ring) <= MaxQueued + 1
    /\ PrependWith(PrependRequests, {<<TRUE, TRUE>>, <<FALSE, FALSE>>}, BOOLEAN)

NextPrependFew ==
    \/ WriteSingles
    \/ ReadUnobserved
    \/ PrependFew

SpecPrependFew == Init /\ [][NextPrependFew]_vars

(***************************************************************************)
(* SpecWake: the readers as threads.  A reader that finds the buffer empty *)
(* is suspended in the wait queue; a write or a prepend notifies the       *)
(* queue; a notified reader runs again when it is scheduled, and looks at  *)
(* the buffer anew: it reads, or, another reader having emptied the        *)
(* buffer, it is suspended again.  Notified readers are scheduled fairly.  *)
(* The writes include a key that the preprocessing consumes, and the       *)
(* prepends the ones that cannot allocate.                                 *)
(***************************************************************************)
Readers == 1..MaxReaders

WakeRequests == Singles({KeyA, KeyPause})

WakeWrite == WriteOf(WakeRequests)

WakePrepend == PrependWith(Singles({KeyA}), {<<TRUE, TRUE>>, <<FALSE, FALSE>>}, BOOLEAN)

\* the reader t calls ReadInputBuffer asking to wait for data; WaitForMoreToRead puts it
\* on the wait queue when it returns CONSOLE_STATUS_WAIT
ReaderReads(t) ==
    /\ calls = <<>>
    /\ t \notin WaitQueue \cup woken
    /\ \E waitStatus \in WaitStatuses :
          /\ ReadInputBuffer(1, FALSE, TRUE, FALSE, TRUE, waitStatus, FALSE)
          /\ WaitQueue' = (IF In = Out /\ waitStatus = CONSOLE_STATUS_WAIT
                           THEN WaitQueue \cup {t}
                           ELSE WaitQueue)
    /\ UNCHANGED <<woken, histVars, lockVars, vtVars>>

\* the notified reader t runs again: it reads when there is data, and stays suspended
\* on the wait queue when there is none
Recheck(t) ==
    /\ t \in woken
    /\ woken' = woken \ {t}
    /\ IF In = Out
       THEN /\ WaitQueue' = WaitQueue \cup {t}
            /\ UNCHANGED <<ringVars, InputWaitEvent, InputMode, Flags, ReadCount, calls>>
       ELSE /\ ReadInputBuffer(1, FALSE, TRUE, FALSE, TRUE, CONSOLE_STATUS_WAIT, FALSE)
            /\ UNCHANGED WaitQueue
    /\ UNCHANGED <<histVars, lockVars, vtVars>>

NextWake ==
    \/ WakeWrite
    \/ WakePrepend
    \/ \E t \in Readers : ReaderReads(t)
    \/ \E t \in Readers : Recheck(t)

SpecWake == Init /\ [][NextWake]_vars /\ \A t \in Readers : WF_vars(Recheck(t))

(***************************************************************************)
(* SpecLock: the threads and the console lock.  Every call of the          *)
(* interface is made with the lock held and runs to its return, where the  *)
(* caller gives the lock up; a reader suspended in the wait does not hold  *)
(* it.  The producer thread also calls SetInputBufferSize by itself, and   *)
(* that call is followed statement by statement, from the assignment of    *)
(* Out to the assignment of InputBuffer.                                   *)
(***************************************************************************)
\* the producer thread
Producer == MaxReaders + 1

LockRequests == Singles({Click55})

\* the call A made by a thread that takes the lock, and gives it up at the return
Locked(A) == lock = NoThread /\ A

LockedWrite == Locked(WriteOf(LockRequests))

LockedRead == Locked(ReadOf(BOOLEAN))

LockedReaderReads(t) == Locked(ReaderReads(t))

LockedRecheck(t) == Locked(Recheck(t))

\* the lines of SetInputBufferSize that assign the members, in the order they are run:
\* Out, In, First, Last, delete[] this->InputBuffer, InputBufferSize, InputBuffer
GrowthLines == <<277, 278, 281, 282, 285, 286, 287>>

\* the members are part old and part new: a statement of GrowthLines has run and another
\* is still to run
Torn(g) == g # <<>> /\ g.pc \in 2..Len(GrowthLines)

\* the producer takes the lock and calls SetInputBufferSize on a buffer that holds
\* records, as WriteBuffer does; the call allocates the new buffer and copies the old one
\* into it with ReadBuffer; the members are still the old ones
GrowBegin ==
    /\ calls = <<>>
    /\ lock = NoThread
    /\ growth = <<>>
    /\ In # Out
    /\ \E Size \in (InputBufferSize + 1)..MaxBufferSize :
          LET res == SetInputBufferSize(Ring, Size, TRUE, NoGarbage)
          IN  /\ NT_SUCCESS(res.Status)
              /\ growth' = [thread |-> Producer, pc |-> 1, ring |-> res.ring]
    /\ lock' = Producer
    /\ UNCHANGED <<ringVars, InputWaitEvent, InputMode, Flags, ReadCount, calls, histVars,
                   waitVars, vtVars>>

\* a faulty statement: the old buffer is freed with the lock given up
SetInputBufferSizeStepYields(g) ==
    [g |-> [g EXCEPT !.pc = g.pc + 1], yields |-> GrowthLines[g.pc] = 285]

\* one statement of GrowthLines: none of them waits or gives the lock up
SetInputBufferSizeStep(g) ==
    [g |-> [g EXCEPT !.pc = g.pc + 1], yields |-> FALSE]

\* the producer runs the next statement of GrowthLines; after the last one the members
\* are the ones of the new buffer, SetInputBufferSize returns and the lock is given up
GrowStep ==
    /\ growth # <<>>
    /\ lock = growth.thread
    /\ LET step == SetInputBufferSizeStep(growth)
       IN  IF growth.pc = Len(GrowthLines)
           THEN /\ SetRing(growth.ring)
                /\ growth' = <<>>
                /\ lock' = NoThread
           ELSE /\ growth' = step.g
                /\ lock' = (IF step.yields THEN NoThread ELSE lock)
                /\ UNCHANGED ringVars
    /\ UNCHANGED <<InputWaitEvent, InputMode, Flags, ReadCount, calls, histVars, waitVars,
                   vtVars>>

NextLock ==
    \/ LockedWrite
    \/ LockedRead
    \/ \E t \in Readers : LockedReaderReads(t)
    \/ \E t \in Readers : LockedRecheck(t)
    \/ GrowBegin
    \/ GrowStep

SpecLock == Init /\ [][NextLock]_vars

(***************************************************************************)
(* SpecInvalid: the render engine told of regions to redraw and of         *)
(* scrolls, frames painted, and another viewport given between frames.     *)
(* The regions have a cell at least in the viewport and reach over its     *)
(* edges; some scrolls move a corner out of the SHORTs.  An observed       *)
(* Invalidate can be followed by a second observed Invalidate.             *)
(***************************************************************************)
RegionXs == {-1, 1, 2, 4}
RegionYs == {0, 1, 3}

Regions ==
    {sr \in [Left : RegionXs, Top : RegionYs, Right : RegionXs, Bottom : RegionYs] :
        sr.Left < sr.Right /\ sr.Top < sr.Bottom}

Offsets == [X : {-1, 0, 1, SHORT_MAX}, Y : {-1, 0, 1}]

\* the regions the renderer hands over: those with a cell in the viewport
Visible(psrRegion) ==
    \E x \in psrRegion.Left..(psrRegion.Right - 1), y \in psrRegion.Top..(psrRegion.Bottom - 1) :
       /\ 0 <= x /\ x <= _lastViewport.Right - _lastViewport.Left
       /\ 0 <= y /\ y <= _lastViewport.Bottom - _lastViewport.Top

ringFrame == <<ringVars, InputWaitEvent, InputMode, Flags, ReadCount, calls, histVars,
               waitVars, lockVars>>

Invalidates ==
    /\ vtCalls = <<>>
    /\ \E psrRegion \in Regions, observe \in BOOLEAN :
          /\ Visible(psrRegion)
          /\ EngineCall("Invalidate", psrRegion, NoCoord,
                        Invalidate(Tracker, _lastViewport, psrRegion), observe)
    /\ UNCHANGED ringFrame

InvalidatesAgain ==
    /\ Len(vtCalls) = 1
    /\ vtCalls[1].op = "Invalidate"
    /\ \E psrRegion \in Regions :
          /\ Visible(psrRegion)
          /\ EngineCall("Invalidate", psrRegion, NoCoord,
                        Invalidate(Tracker, _lastViewport, psrRegion), TRUE)
    /\ UNCHANGED ringFrame

InvalidatesAll ==
    /\ vtCalls = <<>>
    /\ \E observe \in BOOLEAN :
          EngineCall("InvalidateAll", NoRect, NoCoord,
                     InvalidateAll(Tracker, _lastViewport), observe)
    /\ UNCHANGED ringFrame

Scrolls ==
    /\ vtCalls = <<>>
    /\ \E pCoord \in Offsets, observe \in BOOLEAN :
          EngineCall("_InvalidOffset", NoRect, pCoord,
                     _InvalidOffset(Tracker, _lastViewport, pCoord), observe)
    /\ UNCHANGED ringFrame

Paints ==
    /\ vtCalls = <<>>
    /\ Paint
    /\ UNCHANGED ringFrame

UpdatesViewport ==
    /\ vtCalls = <<>>
    /\ ~_fInvalidRectUsed
    /\ \E srNewViewport \in Viewports : UpdateViewport(srNewViewport)
    /\ UNCHANGED ringFrame

NextInvalid ==
    \/ Invalidates
    \/ InvalidatesAgain
    \/ InvalidatesAll
    \/ Scrolls
    \/ Paints
    \/ UpdatesViewport

SpecInvalid == Init /\ [][NextInvalid]_vars

(***************************************************************************)
(* The mouse: the window procedure hands the mouse messages over, the      *)
(* window gets and loses the focus, the client flushes the input.          *)
(***************************************************************************)
MouseMessages ==
    ButtonDowns \cup {"WM_LBUTTONUP", "WM_RBUTTONUP", "WM_MOUSEMOVE", "WM_LBUTTONDBLCLK",
                      "WM_MOUSEWHEEL"}

MousePositions == {[X |-> 5, Y |-> 5], [X |-> 6, Y |-> 6]}

HandlesMouse ==
    /\ calls = <<>>
    /\ GetNumberOfReadyEvents(Ring) <= MaxQueued
    /\ \E Message \in MouseMessages, MousePosition \in MousePositions,
          down \in BOOLEAN, selecting \in BOOLEAN, quickEdit \in BOOLEAN,
          fShiftPressed \in BOOLEAN, handled \in BOOLEAN, observe \in BOOLEAN :
          HandleMouseEvent(Message, MousePosition, Selecting(down, selecting, quickEdit),
                           fShiftPressed, handled, <<TRUE, TRUE>>, observe)
    /\ UNCHANGED <<histVars, lockVars, vtVars>>

SetsFocus ==
    /\ calls = <<>>
    /\ \E focus \in BOOLEAN : SetFocus(focus)
    /\ UNCHANGED <<histVars, lockVars, vtVars>>

NextMouseInput ==
    \/ HandlesMouse
    \/ SetsFocus
    \/ Flush

SpecMouseInput == Init /\ [][NextMouseInput]_vars

(***************************************************************************)
(* The cursor of the render engine: the renderer tells where the cursor    *)
(* is, the engine inherits the cursor of the terminal, regions are         *)
(* invalidated and frames painted.                                         *)
(***************************************************************************)
CursorCoords == [X : {0, 1}, Y : 0..MaxCursorY]

InvalidatesCursor ==
    /\ vtCalls = <<>>
    /\ \E pcoordCursor \in CursorCoords, observe \in BOOLEAN :
          CursorCall("InvalidateCursor", pcoordCursor,
                     InvalidateCursor(CursorTracker, pcoordCursor), observe)
    /\ UNCHANGED ringFrame

InheritsCursor ==
    /\ vtCalls = <<>>
    /\ \E coordCursor \in CursorCoords : InheritCursor(coordCursor)
    /\ UNCHANGED ringFrame

InvalidatesOnce ==
    /\ vtCalls = <<>>
    /\ \E psrRegion \in Regions :
          /\ Visible(psrRegion)
          /\ EngineCall("Invalidate", psrRegion, NoCoord,
                        Invalidate(Tracker, _lastViewport, psrRegion), FALSE)
    /\ UNCHANGED ringFrame

NextCursor ==
    \/ InvalidatesCursor
    \/ InheritsCursor
    \/ InvalidatesOnce
    \/ Paints

SpecCursor == Init /\ [][NextCursor]_vars

(***************************************************************************)
(* The properties.                                                         *)
(***************************************************************************)
\* the call observed last
LastCall == calls[Len(calls)]
Observed(op) == calls # <<>> /\ LastCall.op = op

\* a WriteInputBuffer call that went through the loop of WriteBuffer
PlainWrite(c) == c.op = "WriteInputBuffer" /\ c.recs # <<>> /\ ~c.Coalesced

IsPrefix(a, b) == Len(a) <= Len(b) /\ SubSeq(b, 1, Len(a)) = a

\* the pointer n records after p in the ring r
Advance(r, p, n) == IF p + n >= r.Last THEN r.First + ((p + n) - r.Last) ELSE p + n

\* C1: over writes that are not coalesced and non-peek Unicode reads, the records the
\* reads returned, concatenated, are a prefix of the records written, concatenated; the
\* records written and not yet read are the queue, in order.
C1_Fifo ==
    /\ IsPrefix(readOut, written)
    /\ written = readOut \o Queue(Ring)

\* a read that crosses the wrap of a buffer that has grown, and returns the last of the
\* records written
C1_Witness ==
    /\ Observed("ReadInputBuffer")
    /\ LastCall.pre.InputBufferSize > MaxHint
    /\ LastCall.pre.In < LastCall.pre.Out
    /\ LastCall.n > LastCall.pre.Last - LastCall.pre.Out
    /\ Len(written) = MaxWrites
    /\ readOut = written

\* C2: the wait event is set if and only if the number of ready events is greater than
\* zero, after every WriteInputBuffer, ReadInputBuffer, FlushInputBuffer, FlushAllButKeys
\* and ReinitializeInputBuffer call (and after every PrependInputBuffer call).
C2_WaitSignal == InputWaitEvent <=> GetNumberOfReadyEvents(Ring) > 0

\* a read that took the last records of a buffer whose event was set
C2_Witness ==
    /\ Observed("ReadInputBuffer")
    /\ LastCall.preEvent
    /\ Len(LastCall.preQueue) >= 2
    /\ LastCall.n = Len(LastCall.preQueue)
    /\ In = Out
    /\ ~InputWaitEvent

\* C3: Out equals In if and only if the buffer holds no record, and the number of ready
\* events never exceeds InputBufferSize: both cursors stay inside the InputBufferSize + 1
\* slots, and a write that stored n records leaves n more records ready than there
\* were, so that no write brings In round to Out.
C3_Sentinel ==
    /\ Last - First = InputBufferSize + 1
    /\ First <= In /\ In < Last
    /\ First <= Out /\ Out < Last
    /\ (In = Out) <=> (GetNumberOfReadyEvents(Ring) = 0)
    /\ (In = Out) <=> (\A i \in 1..Len(InputBuffer) : InputBuffer[i] = Uninit)
    /\ GetNumberOfReadyEvents(Ring) <= InputBufferSize
    /\ (calls # <<>> /\ PlainWrite(LastCall))
          => GetNumberOfReadyEvents(Ring) = Len(LastCall.preQueue) + LastCall.n

\* a write that fills the buffer up to the sentinel slot, in the wrapped layout
C3_Witness ==
    /\ calls # <<>>
    /\ PlainWrite(LastCall)
    /\ LastCall.Grows = 0
    /\ LastCall.n >= 2
    /\ GetNumberOfReadyEvents(Ring) = InputBufferSize
    /\ In < Out

\* C4: after a SetInputBufferSize call with a larger size whose allocation succeeded, the
\* number of ready events is what it was before the call.
C4_ResizeKeepsCount ==
    (Observed("SetInputBufferSize") /\ NT_SUCCESS(LastCall.Status))
       => GetNumberOfReadyEvents(Ring) = GetNumberOfReadyEvents(LastCall.pre)

\* C5: k records that one WriteInputBuffer call stored in an empty buffer are what a
\* following non-peek Unicode read of k records returns, in order; the read leaves the
\* buffer empty and the wait event reset.
C5_RoundTrip ==
    (/\ Len(calls) = 2
     /\ calls[1].op = "WriteInputBuffer"
     /\ calls[1].preQueue = <<>>
     /\ calls[1].n = Len(calls[1].recs)
     /\ calls[2].op = "ReadInputBuffer"
     /\ ~calls[2].Peek
     /\ calls[2].Unicode
     /\ calls[2].Length = Len(calls[1].recs))
       => /\ calls[2].Buffer = calls[1].recs
          /\ calls[2].n = Len(calls[1].recs)
          /\ In = Out
          /\ ~InputWaitEvent

\* two records written at a cursor position from which they wrap, with growth, and read
\* back
C5_Witness ==
    /\ Len(calls) = 2
    /\ calls[1].op = "WriteInputBuffer"
    /\ calls[1].preQueue = <<>>
    /\ calls[1].pre.In > calls[1].pre.First
    /\ calls[1].Grows > 0
    /\ calls[1].n = 2
    /\ calls[2].op = "ReadInputBuffer"
    /\ ~calls[2].Peek
    /\ calls[2].Unicode
    /\ ~calls[2].StreamRead
    /\ calls[2].Length = 2
    /\ calls[2].Buffer = calls[1].recs
    /\ calls[1].preEvent = FALSE
    /\ In = Out

\* C6: a write of one mouse-moved event into a non-empty buffer whose last record is a
\* mouse-moved event reports 1 record written, leaves both cursors, the capacity and
\* the number of ready events as they were, and changes nothing in the queue but X and
\* Y of the last record, which become those of the event.
C6_MouseCoalescing ==
    (/\ Observed("WriteInputBuffer")
     /\ Len(LastCall.recs) = 1
     /\ LastCall.recs[1].EventType = MOUSE_EVENT
     /\ LastCall.recs[1].dwEventFlags = MOUSE_MOVED
     /\ LastCall.preQueue # <<>>
     /\ LastCall.preQueue[Len(LastCall.preQueue)].EventType = MOUSE_EVENT
     /\ LastCall.preQueue[Len(LastCall.preQueue)].dwEventFlags = MOUSE_MOVED)
       => /\ LastCall.n = 1
          /\ In = LastCall.pre.In
          /\ Out = LastCall.pre.Out
          /\ InputBufferSize = LastCall.pre.InputBufferSize
          /\ GetNumberOfReadyEvents(Ring) = Len(LastCall.preQueue)
          /\ Queue(Ring) = [LastCall.preQueue EXCEPT
                               ![Len(LastCall.preQueue)].X = LastCall.recs[1].X,
                               ![Len(LastCall.preQueue)].Y = LastCall.recs[1].Y]

\* a move to (6,6) with Shift held merged into a stored move at (5,5) without Shift,
\* behind a click
C6_Witness ==
    /\ Observed("WriteInputBuffer")
    /\ LastCall.recs = <<MoveShift66>>
    /\ LastCall.preQueue = <<Click55, Move55>>
    /\ Queue(Ring) = <<Click55, Move66>>

\* C7: a write of one key-down event (not a full-width character, not under IME
\* conversion) into a non-empty buffer whose last record is a key-down event of the same
\* scan code, character and control-key state reports 1 record written, leaves both
\* cursors, the capacity and the number of ready events as they were, and adds the
\* event's repeat count to the repeat count of that last record.
C7_KeyCoalescing ==
    (/\ Observed("WriteInputBuffer")
     /\ Len(LastCall.recs) = 1
     /\ LastCall.recs[1].EventType = KEY_EVENT
     /\ LastCall.recs[1].bKeyDown
     /\ ~IsCharFullWidth(LastCall.recs[1].UnicodeChar)
     /\ NLS_IME_CONVERSION \notin LastCall.recs[1].dwControlKeyState
     /\ LastCall.preQueue # <<>>
     /\ LET stored == LastCall.preQueue[Len(LastCall.preQueue)]
        IN  /\ stored.EventType = KEY_EVENT
            /\ stored.bKeyDown
            /\ stored.wVirtualScanCode = LastCall.recs[1].wVirtualScanCode
            /\ stored.UnicodeChar = LastCall.recs[1].UnicodeChar
            /\ stored.dwControlKeyState = LastCall.recs[1].dwControlKeyState)
       => /\ LastCall.n = 1
          /\ In = LastCall.pre.In
          /\ Out = LastCall.pre.Out
          /\ InputBufferSize = LastCall.pre.InputBufferSize
          /\ GetNumberOfReadyEvents(Ring) = Len(LastCall.preQueue)
          /\ Queue(Ring) = [LastCall.preQueue EXCEPT
                               ![Len(LastCall.preQueue)].wRepeatCount =
                                   @ + LastCall.recs[1].wRepeatCount]

\* a second press of A merged into the A stored behind a mouse move
C7_Witness ==
    /\ Observed("WriteInputBuffer")
    /\ LastCall.recs = <<KeyA>>
    /\ LastCall.preQueue = <<Move55, KeyA>>
    /\ Queue(Ring) = <<Move55, [KeyA EXCEPT !.wRepeatCount = 2]>>

\* C8: a write of k records that is not coalesced, into a buffer of capacity C holding n
\* records, calls SetInputBufferSize if and only if k > C - n; without the call the
\* capacity stays as it was.
C8_GrowthBoundary ==
    (calls # <<>> /\ PlainWrite(LastCall))
       => /\ (LastCall.Grows > 0) <=>
                (Len(LastCall.recs) > LastCall.pre.InputBufferSize - Len(LastCall.preQueue))
          /\ LastCall.Grows = 0 => InputBufferSize = LastCall.pre.InputBufferSize

\* a write of two records that exactly fills the free slots of a wrapped buffer
C8_Witness ==
    /\ calls # <<>>
    /\ PlainWrite(LastCall)
    /\ LastCall.pre.In < LastCall.pre.Out
    /\ Len(LastCall.recs) = 2
    /\ Len(LastCall.recs) = LastCall.pre.InputBufferSize - Len(LastCall.preQueue)
    /\ LastCall.Grows = 0
    /\ InputBufferSize = LastCall.pre.InputBufferSize

\* C9: when a write of k records into a buffer of capacity C holding n records calls
\* SetInputBufferSize and no such call of the write succeeds, the write stores the first
\* min(k, C - n) records of the request behind the records queued before, which stay as
\* they were, reports that count, and returns the failure status.
C9_GrowthFailure ==
    (/\ calls # <<>>
     /\ PlainWrite(LastCall)
     /\ LastCall.Grows > 0
     /\ InputBufferSize = LastCall.pre.InputBufferSize)
       => LET fit == Min(Len(LastCall.recs),
                         LastCall.pre.InputBufferSize - Len(LastCall.preQueue))
          IN  /\ LastCall.n = fit
              /\ LastCall.Status = STATUS_NO_MEMORY
              /\ Queue(Ring) = LastCall.preQueue \o SubSeq(LastCall.recs, 1, fit)

\* a write of three records of which one fits, into a wrapped buffer that cannot grow
C9_Witness ==
    /\ calls # <<>>
    /\ PlainWrite(LastCall)
    /\ LastCall.pre.In < LastCall.pre.Out
    /\ LastCall.Grows = 2
    /\ Len(LastCall.recs) = 3
    /\ LastCall.n = 1
    /\ LastCall.Status = STATUS_NO_MEMORY
    /\ InputBufferSize = LastCall.pre.InputBufferSize

\* C10: a Unicode read that is not a stream read, of Length r from a buffer holding n
\* records in either layout, returns the min(r, n) oldest records in queue order; unless
\* it is a peek, Out moves past exactly these records, wrapping to First at Last, and
\* n - min(r, n) records stay ready; a peek leaves the buffer as it was.
C10_UnicodeRead ==
    (/\ Observed("ReadInputBuffer")
     /\ LastCall.Unicode
     /\ ~LastCall.StreamRead)
       => LET n == Len(LastCall.preQueue)
              m == Min(LastCall.Length, n)
          IN  /\ LastCall.n = m
              /\ LastCall.Buffer = SubSeq(LastCall.preQueue, 1, m)
              /\ In = LastCall.pre.In
              /\ ~LastCall.Peek =>
                    /\ Out = Advance(LastCall.pre, LastCall.pre.Out, m)
                    /\ GetNumberOfReadyEvents(Ring) = n - m
                    /\ Queue(Ring) = SubSeq(LastCall.preQueue, m + 1, n)
              /\ LastCall.Peek =>
                    /\ Out = LastCall.pre.Out
                    /\ Queue(Ring) = LastCall.preQueue

\* a read of two of the three records of a wrapped buffer, one before Last and one at
\* First
C10_Witness ==
    /\ Observed("ReadInputBuffer")
    /\ LastCall.Unicode
    /\ ~LastCall.StreamRead
    /\ ~LastCall.Peek
    /\ LastCall.pre.In < LastCall.pre.Out
    /\ LastCall.pre.Out = LastCall.pre.Last - 1
    /\ Len(LastCall.preQueue) = 3
    /\ LastCall.Length = 2
    /\ LastCall.n = 2
    /\ Out = First + 1

\* C11: a read with Peek set, in stream mode or not, Unicode or not, whatever record is
\* at Out, leaves Out, In, the queued records and the number of ready events as they
\* were.
C11_PeekUnchanged ==
    (Observed("ReadInputBuffer") /\ LastCall.Peek)
       => /\ Out = LastCall.pre.Out
          /\ In = LastCall.pre.In
          /\ Queue(Ring) = LastCall.preQueue
          /\ GetNumberOfReadyEvents(Ring) = Len(LastCall.preQueue)

\* C12: a stream read from a buffer whose oldest record is a key event with a repeat
\* count above 1 returns one record, takes one repetition off the stored record and
\* leaves that record queued.
C12_StreamExpandsRepeats ==
    (/\ Observed("ReadInputBuffer")
     /\ LastCall.StreamRead
     /\ ~LastCall.Peek
     /\ LastCall.preQueue # <<>>
     /\ LastCall.preQueue[1].EventType = KEY_EVENT
     /\ LastCall.preQueue[1].wRepeatCount > 1)
       => /\ LastCall.n = 1
          /\ Out = LastCall.pre.Out
          /\ Queue(Ring) = [LastCall.preQueue EXCEPT ![1].wRepeatCount = @ - 1]

IsKeyEvent(rec) == rec.EventType = KEY_EVENT

\* C13: after a FlushAllButKeys call that returned success, the queue holds the key
\* events that were queued before the call, all of them and nothing else, in their
\* order, starting at First, with a free slot left; on an empty buffer the call changes
\* nothing.
C13_KeepsKeys ==
    (Observed("FlushAllButKeys") /\ NT_SUCCESS(LastCall.Status))
       => /\ Queue(Ring) = SelectSeq(LastCall.preQueue, IsKeyEvent)
          /\ GetNumberOfReadyEvents(Ring) <= InputBufferSize
          /\ LastCall.preQueue # <<>> => Out = First
          /\ LastCall.preQueue = <<>> =>
                /\ Ring = LastCall.pre
                /\ InputWaitEvent = LastCall.preEvent

\* C14: FlushInputBuffer and ReinitializeInputBuffer, called in any state, leave In and
\* Out at First, no event ready and the wait event reset; InputBufferSize, First and
\* Last stay as they were, and no slot of the backing store receives a record.
C14_ClearAndReinitialize ==
    (Observed("FlushInputBuffer") \/ Observed("ReinitializeInputBuffer"))
       => /\ In = First
          /\ Out = First
          /\ GetNumberOfReadyEvents(Ring) = 0
          /\ ~InputWaitEvent
          /\ InputBufferSize = LastCall.pre.InputBufferSize
          /\ First = LastCall.pre.First
          /\ Last = LastCall.pre.Last
          /\ Len(InputBuffer) = Len(LastCall.pre.InputBuffer)
          /\ \A i \in 1..Len(InputBuffer) :
                InputBuffer[i] \in {LastCall.pre.InputBuffer[i], Uninit}

\* a ReinitializeInputBuffer call on a grown buffer whose queue wraps and whose event is
\* set
C14_Witness ==
    /\ Observed("ReinitializeInputBuffer")
    /\ LastCall.pre.InputBufferSize > MaxHint
    /\ LastCall.pre.In < LastCall.pre.Out
    /\ LastCall.preEvent
    /\ In = First
    /\ ~InputWaitEvent

\* C15: the constructor called with the hint h leaves an empty buffer, In = Out = First;
\* its capacity is h, with h + 1 slots allocated, when h >= 1 and (h + 1) *
\* sizeof(INPUT_RECORD) fits the word, and DEFAULT_NUMBER_OF_EVENTS, with that many
\* slots plus one, when h = 0 or the computation overflows.
C15_Create ==
    (Observed("INPUT_INFORMATION") /\ NT_SUCCESS(LastCall.Status))
       => LET h == LastCall.Length
              fits == h >= 1 /\ (h + 1) * SizeofInputRecord <= ULONG_MAX
              capacity == IF fits THEN h ELSE DEFAULT_NUMBER_OF_EVENTS
          IN  /\ In = First
              /\ Out = First
              /\ GetNumberOfReadyEvents(Ring) = 0
              /\ InputBufferSize = capacity
              /\ Len(InputBuffer) = capacity + 1
              /\ Last - First = capacity + 1

\* a buffer constructed with the smallest hint whose byte size overflows, in place of
\* one that held records
C15_Witness ==
    /\ Observed("INPUT_INFORMATION")
    /\ NT_SUCCESS(LastCall.Status)
    /\ LastCall.Length = ULONG_MAX \div SizeofInputRecord
    /\ LastCall.preQueue # <<>>
    /\ LastCall.pre.InputBufferSize # DEFAULT_NUMBER_OF_EVENTS
    /\ InputBufferSize = DEFAULT_NUMBER_OF_EVENTS
    /\ In = Out

\* C16: a SetInputBufferSize call that returns STATUS_INTEGER_OVERFLOW or
\* STATUS_NO_MEMORY leaves First, Last, In, Out, InputBufferSize, the contents of the
\* backing store and the wait event exactly as they were.
C16_ResizeFailure ==
    (/\ Observed("SetInputBufferSize")
     /\ LastCall.Status \in {STATUS_INTEGER_OVERFLOW, STATUS_NO_MEMORY})
       => /\ First = LastCall.pre.First
          /\ Last = LastCall.pre.Last
          /\ In = LastCall.pre.In
          /\ Out = LastCall.pre.Out
          /\ InputBufferSize = LastCall.pre.InputBufferSize
          /\ InputBuffer = LastCall.pre.InputBuffer
          /\ InputWaitEvent = LastCall.preEvent

\* a size whose byte count overflows, asked of a buffer whose queue wraps and whose
\* event is set
C16_Witness ==
    /\ Observed("SetInputBufferSize")
    /\ LastCall.Status = STATUS_INTEGER_OVERFLOW
    /\ LastCall.Length = ULONG_MAX \div SizeofInputRecord
    /\ LastCall.pre.In < LastCall.pre.Out
    /\ LastCall.preEvent
    /\ Queue(Ring) = LastCall.preQueue
    /\ Len(LastCall.preQueue) >= 2

\* a PrependInputBuffer call that returned success and whose SetInputBufferSize calls,
\* if any, all succeeded, followed by a read of as many records as it was given and found
PrependThenRead ==
    /\ Len(calls) = 2
    /\ calls[1].op = "PrependInputBuffer"
    /\ NT_SUCCESS(calls[1].Status)
    /\ calls[1].Resized = calls[1].Grows
    /\ calls[2].op = "ReadInputBuffer"
    /\ calls[2].Length = Len(calls[1].recs) + Len(calls[1].preQueue)

\* C17 as stated: after a successful PrependInputBuffer of k records onto a buffer
\* holding n records, with growth succeeding when needed, a read of n + k records
\* returns the k new records in their order followed by the n records queued before in
\* theirs.
C17_PrependFirst ==
    PrependThenRead => calls[2].Buffer = calls[1].recs \o calls[1].preQueue

\* the coalescing rule of WriteBuffer applied to the record old written behind last
MergesMouse(old, last) ==
    /\ old.EventType = MOUSE_EVENT /\ old.dwEventFlags = MOUSE_MOVED
    /\ last.EventType = MOUSE_EVENT /\ last.dwEventFlags = MOUSE_MOVED

MergesKey(old, last) ==
    /\ old.EventType = KEY_EVENT /\ old.bKeyDown
    /\ ~IsCharFullWidth(old.UnicodeChar)
    /\ last.EventType = KEY_EVENT /\ last.bKeyDown
    /\ last.UnicodeChar = old.UnicodeChar
    /\ last.dwControlKeyState = old.dwControlKeyState
    /\ (NLS_IME_CONVERSION \in old.dwControlKeyState
           \/ last.wVirtualScanCode = old.wVirtualScanCode)

\* C17, amended: the read returns the k new records followed by the n records queued
\* before, except when n = 1 and k >= 1 and the record queued before is one the
\* coalescing rule merges into the last new record: then the read returns the k new
\* records, the last of them with the position of the record queued before (mouse
\* moves) or with the two repeat counts added (key-down events).
C17_PrependFirstUnlessCoalesced ==
    PrependThenRead =>
       LET recs == calls[1].recs
           k == Len(recs)
           old == calls[1].preQueue
       IN  IF Len(old) = 1 /\ k >= 1 /\ MergesMouse(old[1], recs[k])
           THEN calls[2].Buffer = [recs EXCEPT ![k].X = old[1].X, ![k].Y = old[1].Y]
           ELSE IF Len(old) = 1 /\ k >= 1 /\ MergesKey(old[1], recs[k])
           THEN calls[2].Buffer =
                   [recs EXCEPT ![k].wRepeatCount = @ + old[1].wRepeatCount]
           ELSE calls[2].Buffer = recs \o old

\* two records put ahead of a queued one that sits in the last slot, the buffer growing
\* for it, and all three read back
C17_Witness ==
    /\ PrependThenRead
    /\ Len(calls[1].recs) = 2
    /\ Len(calls[1].preQueue) = 1
    /\ calls[1].Grows > 0
    /\ calls[1].pre.In < calls[1].pre.Out
    /\ calls[2].n = 3
    /\ calls[2].Buffer = calls[1].recs \o calls[1].preQueue

\* C18: a PrependInputBuffer call that returns STATUS_INTEGER_OVERFLOW or
\* STATUS_NO_MEMORY, from the sizing or the allocation of the copy of the existing
\* events, leaves the cursors, the capacity, the queued records and the wait event as
\* they were.
C18_PrependFailsAtomically ==
    (/\ Observed("PrependInputBuffer")
     /\ LastCall.Status \in {STATUS_INTEGER_OVERFLOW, STATUS_NO_MEMORY})
       => /\ First = LastCall.pre.First
          /\ Last = LastCall.pre.Last
          /\ In = LastCall.pre.In
          /\ Out = LastCall.pre.Out
          /\ InputBufferSize = LastCall.pre.InputBufferSize
          /\ Queue(Ring) = LastCall.preQueue
          /\ InputWaitEvent = LastCall.preEvent

\* two records to put ahead of two queued ones that wrap, and no memory for the copy
C18_Witness ==
    /\ Observed("PrependInputBuffer")
    /\ LastCall.Status = STATUS_NO_MEMORY
    /\ Len(LastCall.recs) = 2
    /\ Len(LastCall.preQueue) = 2
    /\ LastCall.pre.In < LastCall.pre.Out
    /\ LastCall.preEvent
    /\ Queue(Ring) = LastCall.preQueue

\* C19: a ReadInputBuffer call on an empty buffer with fWaitForData calls
\* WaitForMoreToRead with the read count incremented once; when that returns
\* CONSOLE_STATUS_WAIT the count stays one above what it was, and when it returns any
\* other status the count is back to what it was and the call returns that status with
\* 0 records.  No ReadInputBuffer call leaves the count below what it was.
C19_ReadCount ==
    Observed("ReadInputBuffer")
       => /\ (LastCall.pre.In = LastCall.pre.Out /\ LastCall.WaitForData)
                => /\ LastCall.Waited
                   /\ LastCall.n = 0
                   /\ LastCall.Status = CONSOLE_STATUS_WAIT
                         => ReadCount = LastCall.preReadCount + 1
                   /\ LastCall.Status # CONSOLE_STATUS_WAIT
                         => /\ ReadCount = LastCall.preReadCount
                            /\ ~NT_SUCCESS(LastCall.Status)
          /\ ~(LastCall.pre.In = LastCall.pre.Out /\ LastCall.WaitForData)
                => ReadCount = LastCall.preReadCount
          /\ ReadCount >= LastCall.preReadCount

\* a wait that could not be registered while another read of the handle is outstanding
C19_Witness ==
    /\ Observed("ReadInputBuffer")
    /\ LastCall.pre.In = LastCall.pre.Out
    /\ LastCall.WaitForData
    /\ LastCall.Waited
    /\ LastCall.Status = STATUS_NO_MEMORY
    /\ LastCall.preReadCount = 1
    /\ ReadCount = 1

\* C20: ReadInputBuffer calls WaitForMoreToRead only when In = Out and fWaitForData is
\* set; on a buffer that is not empty it reads at once and leaves the read count alone;
\* on an empty buffer without fWaitForData it returns STATUS_SUCCESS with 0 records and
\* leaves the buffer, the wait event and the read count as they were.
C20_SuspendOnlyWhenEmpty ==
    Observed("ReadInputBuffer")
       => /\ LastCall.Waited => (LastCall.pre.In = LastCall.pre.Out /\ LastCall.WaitForData)
          /\ LastCall.pre.In # LastCall.pre.Out
                => /\ ~LastCall.Waited
                   /\ ReadCount = LastCall.preReadCount
                   /\ NT_SUCCESS(LastCall.Status)
                   /\ LastCall.Length >= 1 => LastCall.n >= 1
                   /\ LastCall.n = Len(LastCall.Buffer)
          /\ (LastCall.pre.In = LastCall.pre.Out /\ ~LastCall.WaitForData)
                => /\ ~LastCall.Waited
                   /\ NT_SUCCESS(LastCall.Status)
                   /\ LastCall.n = 0
                   /\ Ring = LastCall.pre
                   /\ InputWaitEvent = LastCall.preEvent
                   /\ ReadCount = LastCall.preReadCount

\* a read that asked to wait and found a record queued, behind a reader already waiting
C20_Witness ==
    /\ Observed("ReadInputBuffer")
    /\ LastCall.WaitForData
    /\ LastCall.pre.In # LastCall.pre.Out
    /\ LastCall.preReadCount = 1
    /\ ~LastCall.Waited
    /\ LastCall.n >= 1
    /\ ReadCount = 1

(***************************************************************************)
(* The cursors after each completed operation.                             *)
(***************************************************************************)
\* C23: after every completed operation First <= Out < Last and First <= In < Last, the
\* cursors are whole numbers of records from First, and Last - First is
\* InputBufferSize + 1 records, the length of the backing store; a cursor that an
\* operation moved up to Last rests at First.
C23_CursorRange ==
    /\ Last - First = InputBufferSize + 1
    /\ Len(InputBuffer) = Last - First
    /\ In \in First..(Last - 1)
    /\ Out \in First..(Last - 1)
    /\ (Observed("WriteInputBuffer") /\ LastCall.Resized = 0 /\ ~LastCall.Coalesced
          /\ LastCall.pre.In + LastCall.n >= LastCall.pre.Last)
          => In = LastCall.pre.First + (LastCall.pre.In + LastCall.n - LastCall.pre.Last)
    /\ (Observed("ReadInputBuffer") /\ ~LastCall.Peek /\ ~LastCall.StreamRead
          /\ LastCall.pre.Out + LastCall.n >= LastCall.pre.Last)
          => Out = LastCall.pre.First + (LastCall.pre.Out + LastCall.n - LastCall.pre.Last)

\* a write into a buffer whose first slots were read away, whose last record filled the
\* slot before Last: In went up to Last and rests at First
C23_Witness ==
    /\ Observed("WriteInputBuffer")
    /\ LastCall.Resized = 0
    /\ ~LastCall.Coalesced
    /\ LastCall.n >= 1
    /\ LastCall.pre.In + LastCall.n = LastCall.pre.Last
    /\ LastCall.pre.Out > LastCall.pre.First
    /\ In = First

(***************************************************************************)
(* SetInputBufferSize as a compaction.                                     *)
(***************************************************************************)
\* C28: after a successful SetInputBufferSize(n) on a buffer that held m records, in the
\* contiguous or in the wrapped layout, Out is First, In is First + m, Last - First is
\* n + 1, the capacity is n, and the records queued are the m records there were, in
\* the same order.
C28_ResizeCompacts ==
    (Observed("SetInputBufferSize") /\ NT_SUCCESS(LastCall.Status))
       => /\ Out = First
          /\ In = First + Len(LastCall.preQueue)
          /\ Last - First = LastCall.Length + 1
          /\ InputBufferSize = LastCall.Length
          /\ Queue(Ring) = LastCall.preQueue

\* the same for the buffers that held at least one record
C28_ResizeCompactsNonEmpty ==
    (Observed("SetInputBufferSize") /\ NT_SUCCESS(LastCall.Status)
       /\ LastCall.pre.In # LastCall.pre.Out)
       => /\ Out = First
          /\ In = First + Len(LastCall.preQueue)
          /\ Last - First = LastCall.Length + 1
          /\ InputBufferSize = LastCall.Length
          /\ Queue(Ring) = LastCall.preQueue

(***************************************************************************)
(* The growth of the buffer by WriteBuffer.                                *)
(***************************************************************************)
\* a WriteBuffer call that resized the buffer resized it once, to the capacity there was
\* plus the Length of the call plus INPUT_BUFFER_SIZE_INCREMENT, and stored all its
\* records
C29_GrowsOnce ==
    (Observed("WriteInputBuffer") /\ LastCall.Resized >= 1)
       => /\ LastCall.Resized = 1
          /\ InputBufferSize = LastCall.pre.InputBufferSize + LastCall.Length
                                  + INPUT_BUFFER_SIZE_INCREMENT
          /\ NT_SUCCESS(LastCall.Status)
          /\ LastCall.n = LastCall.Length
          /\ Queue(Ring) = LastCall.preQueue \o LastCall.recs

\* C29: a WriteBuffer call of k records that needs growth and whose resize succeeds
\* resizes once, to the old capacity + k + INPUT_BUFFER_SIZE_INCREMENT, and places all
\* the remaining records without another resize; no step of any operation lowers the
\* capacity.
C29_Growth ==
    /\ []C29_GrowsOnce
    /\ [][InputBufferSize' >= InputBufferSize]_vars

\* a call of two records or more into a wrapped buffer, resized part-way
C29_Witness ==
    /\ Observed("WriteInputBuffer")
    /\ LastCall.Resized = 1
    /\ LastCall.Length >= 2
    /\ LastCall.pre.In < LastCall.pre.Out
    /\ LastCall.n = LastCall.Length
    /\ InputBufferSize = LastCall.pre.InputBufferSize + LastCall.Length
                            + INPUT_BUFFER_SIZE_INCREMENT

(***************************************************************************)
(* SetWaitEvent, as WriteBuffer reports it.                                *)
(***************************************************************************)
\* C30: the WriteBuffer call of a WriteInputBuffer call reports SetWaitEvent = TRUE if
\* and only if In = Out when the call began; it reports FALSE for every coalesced write.
C30_SetWaitEvent ==
    (Observed("WriteInputBuffer") /\ LastCall.recs # <<>>)
       => /\ LastCall.flag <=> (LastCall.pre.In = LastCall.pre.Out)
          /\ LastCall.Coalesced => ~LastCall.flag

\* a write into a buffer that holds records, that went through the In >= Out branch, grew
\* the buffer part-way and reported FALSE
C30_Witness ==
    /\ Observed("WriteInputBuffer")
    /\ LastCall.pre.In > LastCall.pre.Out
    /\ LastCall.Resized = 1
    /\ LastCall.Length >= 2
    /\ LastCall.n = LastCall.Length
    /\ ~LastCall.flag

\* a write into an empty buffer whose cursors are not at First, that wrapped and reported
\* TRUE
C30_WitnessEmpty ==
    /\ Observed("WriteInputBuffer")
    /\ LastCall.pre.In = LastCall.pre.Out
    /\ LastCall.pre.Out > LastCall.pre.First
    /\ In < Out
    /\ LastCall.flag

(***************************************************************************)
(* The invalid region of the render engine.  The properties speak of the   *)
(* character cells that a rectangle covers.                                *)
(***************************************************************************)
LastVtCall == vtCalls[Len(vtCalls)]
VtObserved(op) == vtCalls # <<>> /\ LastVtCall.op = op

\* the cells of a Viewport, and of a SMALL_RECT exclusive of its Right and Bottom
Cells(v) == (v.Left..v.Right) \X (v.Top..v.Bottom)
CellsOf(sr) == (sr.Left..(sr.Right - 1)) \X (sr.Top..(sr.Bottom - 1))

\* the cells of the smallest rectangle that covers the cells S
Covering(S) ==
    {c \in (SHORT_MIN..SHORT_MAX) \X (SHORT_MIN..SHORT_MAX) :
        /\ \E a \in S : a[1] <= c[1]
        /\ \E a \in S : a[1] >= c[1]
        /\ \E a \in S : a[2] <= c[2]
        /\ \E a \in S : a[2] >= c[2]}

\* the cells of the viewport moved to the origin
ViewportCells(v) == (0..(v.Right - v.Left)) \X (0..(v.Bottom - v.Top))

\* C24: with no damage pending, Invalidate(A) followed by Invalidate(B) leaves the flag
\* set and the region equal to the smallest rectangle that covers A and B, clipped to the
\* viewport moved to the origin.
C24_BoundingBox ==
    (Len(vtCalls) = 2 /\ ~vtCalls[1].pre.used)
       => /\ _fInvalidRectUsed
          /\ Cells(_invalidRect)
                = Covering(CellsOf(vtCalls[1].psrRegion) \cup CellsOf(vtCalls[2].psrRegion))
                     \cap ViewportCells(_lastViewport)

\* two regions apart from each other, the first over the left edge of the viewport, the
\* second over its right edge: the region is the full width
C24_Witness ==
    /\ Len(vtCalls) = 2
    /\ ~vtCalls[1].pre.used
    /\ vtCalls[1].psrRegion.Left < 0
    /\ vtCalls[1].psrRegion.Right < vtCalls[2].psrRegion.Left
    /\ vtCalls[2].psrRegion.Right > _lastViewport.Right - _lastViewport.Left + 1
    /\ _fInvalidRectUsed
    /\ _invalidRect.Left = 0
    /\ _invalidRect.Right = _lastViewport.Right - _lastViewport.Left

\* C25: whatever the tracker held, after InvalidateAll the flag is set and the region is
\* the whole viewport, moved to the origin.
C25_InvalidateAll ==
    VtObserved("InvalidateAll")
       => /\ _fInvalidRectUsed
          /\ _invalidRect = SmallRect(0, 0, _lastViewport.Right - _lastViewport.Left,
                                      _lastViewport.Bottom - _lastViewport.Top)

\* InvalidateAll with a region of one column pending, the corner of the viewport away
\* from the origin
C25_Witness ==
    /\ VtObserved("InvalidateAll")
    /\ LastVtCall.pre.used
    /\ LastVtCall.pre.rect.Right = LastVtCall.pre.rect.Left
    /\ _lastViewport.Left > 0
    /\ _fInvalidRectUsed
    /\ Cells(_invalidRect) = ViewportCells(_lastViewport)

\* the exclusive rectangle of rect lies within the viewport moved to the origin
WithinViewport(rect, v) ==
    /\ 0 <= rect.Left
    /\ rect.Left <= rect.Right + 1
    /\ rect.Right + 1 <= v.Right - v.Left + 1
    /\ 0 <= rect.Top
    /\ rect.Top <= rect.Bottom + 1
    /\ rect.Bottom + 1 <= v.Bottom - v.Top + 1

MovedCells(rect, pCoord) ==
    {<<c[1] + pCoord.X, c[2] + pCoord.Y>> : c \in Cells(rect)}

C27_WitnessFailure ==
    /\ VtObserved("_InvalidOffset")
    /\ LastVtCall.pre.used
    /\ LastVtCall.hr # S_OK
    /\ _invalidRect = LastVtCall.pre.rect

\* a scroll with no region pending
C27_WitnessNoDamage ==
    /\ VtObserved("_InvalidOffset")
    /\ ~LastVtCall.pre.used
    /\ LastVtCall.pCoord.X # 0


Notifies(c) ==
    /\ c.recs # <<>>
    /\ \/ c.op = "WriteInputBuffer"
       \/ c.op = "PrependInputBuffer" /\ NT_SUCCESS(c.Status)

C21_WitnessNotNotified ==
    /\ Observed("PrependInputBuffer")
    /\ LastCall.recs # <<>>
    /\ LastCall.Status = STATUS_NO_MEMORY
    /\ ~LastCall.Notified


(***************************************************************************)
(* C22: with every call made under the console lock, and the lock given    *)
(* up by a reader only while it is suspended in the wait, no call of a     *)
(* producer or of a reader finds the members of the buffer part old and    *)
(* part new: while SetInputBufferSize is between its first assignment and  *)
(* its last the lock is held by the thread that runs it, and every call    *)
(* observed was made with no growth in progress, on the whole old or the   *)
(* whole new buffer.                                                       *)
(***************************************************************************)
C22_NoTornBuffer ==
    /\ Torn(growth) => lock = growth.thread
    /\ calls # <<>> => LastCall.preGrowth = <<>>

\* a growth between its assignments, the old buffer about to be freed, while a reader
\* that was notified has not run again yet
C22_Witness ==
    /\ Torn(growth)
    /\ GrowthLines[growth.pc] = 285
    /\ woken # {}
    /\ growth.ring.InputBufferSize > InputBufferSize

\* a read observed after a growth of a buffer that held records
C22_WitnessAfterGrowth ==
    /\ Observed("ReadInputBuffer")
    /\ growth = <<>>
    /\ LastCall.pre.InputBufferSize = MaxBufferSize
    /\ LastCall.n > 0


(***************************************************************************)
(* C31: a read of a buffer that holds records reports ResetWaitEvent       *)
(* exactly when it was not a peek and left Out equal to In, whatever the   *)
(* branch of ReadBuffer that served it.  The stream branch does not look   *)
(* at Peek, and a stream peek that takes the only record reports it too.   *)
(***************************************************************************)
C31_ResetWaitEvent ==
    Observed("ReadInputBuffer") /\ LastCall.pre.In # LastCall.pre.Out
        => (LastCall.flag <=> (~LastCall.Peek /\ Out = In))


\* the record that the coalescing of WriteBuffer looks at: the last one queued
LastQueued(c) == c.preQueue[Len(c.preQueue)]

\* the cases in which the write c is not to be coalesced: more than one record, an empty
\* buffer, a key-up, a key with a full-width character, a last record of another kind
Gated(c) ==
    \/ Len(c.recs) > 1
    \/ c.preQueue = <<>>
    \/ c.recs[1].EventType = KEY_EVENT /\ ~c.recs[1].bKeyDown
    \/ c.recs[1].EventType = KEY_EVENT /\ IsCharFullWidth(c.recs[1].UnicodeChar)
    \/ LastQueued(c).EventType # c.recs[1].EventType

(***************************************************************************)
(* C32: a write of more than one record, a write into the empty buffer, a  *)
(* write of a key-up or of a key with a full-width character, and a write  *)
(* of a record of another kind than the last one queued, is never          *)
(* coalesced; when the growths it asks for succeed, the write of k records *)
(* reports k, makes the ready events k more and appends the records as     *)
(* they are.                                                               *)
(***************************************************************************)
C32_CoalescingGated ==
    Observed("WriteInputBuffer") /\ LastCall.recs # <<>> /\ Gated(LastCall)
        => /\ ~LastCall.Coalesced
           /\ LastCall.Resized = LastCall.Grows
                 => /\ NT_SUCCESS(LastCall.Status)
                    /\ LastCall.n = Len(LastCall.recs)
                    /\ GetNumberOfReadyEvents(Ring)
                          = Len(LastCall.preQueue) + Len(LastCall.recs)
                    /\ Queue(Ring) = LastCall.preQueue \o LastCall.recs

\* two moves written at once behind a move, with a growth: they are not merged
C32_Witness ==
    /\ Observed("WriteInputBuffer")
    /\ LastCall.recs = <<Move55, Move66>>
    /\ LastCall.preQueue = <<Move55>>
    /\ LastCall.Grows > 0
    /\ LastCall.Resized = LastCall.Grows
    /\ Queue(Ring) = <<Move55, Move55, Move66>>

\* a key-up behind its key-down, the full-width key behind itself, a key behind a move
C32_WitnessKeyUp ==
    /\ Observed("WriteInputBuffer")
    /\ \/ LastCall.recs = <<KeyAUp>> /\ LastCall.preQueue = <<KeyA>>
       \/ LastCall.recs = <<KeyWide>> /\ LastCall.preQueue = <<KeyWide>>
       \/ LastCall.recs = <<KeyA>> /\ LastCall.preQueue = <<Move55>>
    /\ GetNumberOfReadyEvents(Ring) = 2


\* the test of the IME rule: the last record queued is a key-down with the character and
\* the control-key state of the new one
ImeMatch(stored, rec) ==
    /\ stored.EventType = KEY_EVENT
    /\ stored.bKeyDown
    /\ stored.UnicodeChar = rec.UnicodeChar
    /\ stored.dwControlKeyState = rec.dwControlKeyState

(***************************************************************************)
(* C33: a single key-down under IME conversion, not full-width, written    *)
(* into a buffer that holds records, is merged into the last record        *)
(* (repeat counts summed, one record reported, cursors as they were)       *)
(* exactly when that record is a key-down with the same character and the  *)
(* same control-key state, whatever the scan codes; otherwise it is        *)
(* appended.                                                               *)
(***************************************************************************)
C33_ImeCoalescing ==
    (/\ Observed("WriteInputBuffer")
     /\ Len(LastCall.recs) = 1
     /\ LastCall.recs[1].EventType = KEY_EVENT
     /\ LastCall.recs[1].bKeyDown
     /\ NLS_IME_CONVERSION \in LastCall.recs[1].dwControlKeyState
     /\ ~IsCharFullWidth(LastCall.recs[1].UnicodeChar)
     /\ LastCall.preQueue # <<>>)
       => IF ImeMatch(LastQueued(LastCall), LastCall.recs[1])
          THEN /\ LastCall.Coalesced
               /\ LastCall.n = 1
               /\ In = LastCall.pre.In
               /\ Out = LastCall.pre.Out
               /\ Queue(Ring) = [LastCall.preQueue EXCEPT
                                    ![Len(LastCall.preQueue)].wRepeatCount =
                                        @ + LastCall.recs[1].wRepeatCount]
          ELSE /\ ~LastCall.Coalesced
               /\ LastCall.Resized = LastCall.Grows
                     => Queue(Ring) = LastCall.preQueue \o LastCall.recs

\* a key under IME conversion merged into one that has another scan code
C33_Witness ==
    /\ Observed("WriteInputBuffer")
    /\ LastCall.recs = <<KeyIme>>
    /\ LastCall.preQueue # <<>>
    /\ LastQueued(LastCall) = KeyImeA
    /\ LastCall.Coalesced
    /\ Queue(Ring)[Len(Queue(Ring))] = [KeyImeA EXCEPT !.wRepeatCount = 2]

\* a key under IME conversion appended behind the same key outside of the conversion,
\* behind another character, and behind a key-up
C33_WitnessAppended ==
    /\ Observed("WriteInputBuffer")
    /\ LastCall.recs = <<KeyImeA>>
    /\ LastCall.preQueue # <<>>
    /\ LastQueued(LastCall) \in {KeyA, KeyImeB, KeyImeUp}
    /\ Queue(Ring) = LastCall.preQueue \o <<KeyImeA>>


\* a key-down that releases the suspended output: any but a system key
Unblocks(rec, flags) ==
    /\ rec.EventType = KEY_EVENT /\ rec.bKeyDown
    /\ CONSOLE_OUTPUT_SUSPENDED \in flags
    /\ rec.wVirtualKeyCode \notin SystemKeys

\* a key-down that suspends the output: a pause key while the line input is on
Pauses(rec, flags, mode) ==
    /\ rec.EventType = KEY_EVENT /\ rec.bKeyDown
    /\ ~Unblocks(rec, flags)
    /\ ENABLE_LINE_INPUT \in mode
    /\ (rec.wVirtualKeyCode = VK_PAUSE
           \/ (rec.wVirtualKeyCode = "VK_S" /\ "CTRL_PRESSED" \in rec.dwControlKeyState))

\* the console flags when record i of input arrives, the call being made with flags
RECURSIVE FlagsAt(_, _, _, _)
FlagsAt(input, flags, mode, i) ==
    IF i = 1 THEN flags
    ELSE LET before == FlagsAt(input, flags, mode, i - 1)
         IN  IF Unblocks(input[i - 1], before)
             THEN before \ {CONSOLE_OUTPUT_SUSPENDED}
             ELSE IF Pauses(input[i - 1], before, mode)
             THEN before \cup {CONSOLE_OUTPUT_SUSPENDED}
             ELSE before

\* the places of the records of the call c that are to stay
KeptPlaces(c) ==
    {i \in 1..Len(c.input) :
        LET at == FlagsAt(c.input, c.preFlags, c.preMode, i)
        IN  ~Unblocks(c.input[i], at) /\ ~Pauses(c.input[i], at, c.preMode)}

C35_WitnessAllStripped ==
    /\ Observed("WriteInputBuffer")
    /\ LastCall.input = <<KeyCtrlS, KeyA>>
    /\ LastCall.recs = <<>>
    /\ LastCall.preQueue # <<>>
    /\ LastCall.n = 0

\* the system key does not release the output, and stays; the pause key stays with the
\* line input off
C35_WitnessKept ==
    /\ Observed("WriteInputBuffer")
    /\ \/ /\ LastCall.input = <<KeyShift, KeyAUp>>
          /\ CONSOLE_OUTPUT_SUSPENDED \in LastCall.preFlags
          /\ LastCall.recs = LastCall.input
          /\ CONSOLE_OUTPUT_SUSPENDED \in Flags
       \/ /\ LastCall.input = <<KeyPause>>
          /\ ENABLE_LINE_INPUT \notin LastCall.preMode
          /\ LastCall.preFlags = {}
          /\ LastCall.recs = <<KeyPause>>


\* the first n records of s
Prefix(s, n) == SubSeq(s, 1, n)

\* the prepend c got past the copy of the existing events: it wrote
PrependWrote(c) ==
    /\ c.op = "PrependInputBuffer"
    /\ c.recs # <<>>
    /\ c.Notified

C37_PrependConserves ==
    calls # <<>> /\ PrependWrote(LastCall) /\ LastCall.Resized = LastCall.Grows
        => GetNumberOfReadyEvents(Ring) = Len(LastCall.preQueue) + Len(LastCall.recs)

\* the single saved record of the prepend c is one that the coalescing rule merges into
\* the last new record
SavedMerges(c) ==
    /\ Len(c.preQueue) = 1
    /\ \/ MergesMouse(c.preQueue[1], c.recs[Len(c.recs)])
       \/ MergesKey(c.preQueue[1], c.recs[Len(c.recs)])

(***************************************************************************)
(* C37, as amended: with the growths succeeding, the ready events after    *)
(* the prepend are n + k, the new records followed by the saved ones,      *)
(* except when n = 1 and the saved record is a mouse move or a key-down    *)
(* that the coalescing rule merges into the last new record: then they are *)
(* k.  With n >= 2 no saved record is ever merged into a new one.          *)
(***************************************************************************)
C37_PrependConservesUnlessMerged ==
    calls # <<>> /\ PrependWrote(LastCall) /\ LastCall.Resized = LastCall.Grows
        => IF SavedMerges(LastCall)
           THEN GetNumberOfReadyEvents(Ring) = Len(LastCall.recs)
           ELSE /\ GetNumberOfReadyEvents(Ring)
                      = Len(LastCall.preQueue) + Len(LastCall.recs)
                /\ Queue(Ring) = LastCall.recs \o LastCall.preQueue

\* a move put ahead of two records, the first a move: three ready events, the two moves
\* side by side
C37_Witness ==
    /\ calls # <<>> /\ PrependWrote(LastCall)
    /\ LastCall.recs = <<Move55>>
    /\ LastCall.preQueue = <<Move55, KeyA>>
    /\ LastCall.Resized = LastCall.Grows
    /\ Queue(Ring) = <<Move55, Move55, KeyA>>

\* two records put ahead of one that is not merged, the buffer growing for it
C37_WitnessGrowth ==
    /\ calls # <<>> /\ PrependWrote(LastCall)
    /\ LastCall.recs = <<KeyA, Move55>>
    /\ LastCall.preQueue = <<KeyA>>
    /\ LastCall.Grows > 0
    /\ LastCall.Resized = LastCall.Grows
    /\ GetNumberOfReadyEvents(Ring) = 3

\* a move put ahead of a single move: one ready event
C37_WitnessMerged ==
    /\ calls # <<>> /\ PrependWrote(LastCall)
    /\ LastCall.recs = <<Move66>>
    /\ LastCall.preQueue = <<Move55>>
    /\ LastCall.Resized = LastCall.Grows
    /\ Queue(Ring) = <<Move55>>


\* the destination characters a record takes in a non-Unicode read: two for a key event
\* with a full-width character, one otherwise
CharWidth(rec) ==
    IF rec.EventType = KEY_EVENT /\ IsCharFullWidth(rec.UnicodeChar) THEN 2 ELSE 1

\* the destination characters that records take
RECURSIVE Chars(_)
Chars(recs) == IF recs = <<>> THEN 0 ELSE CharWidth(Head(recs)) + Chars(Tail(recs))

\* a non-Unicode read that goes through the copy loops of ReadBuffer
AnsiRead(c) == c.op = "ReadInputBuffer" /\ ~c.Unicode /\ ~c.StreamRead

\* C34 as stated: in a non-Unicode read the characters of the records handed back never
\* exceed the requested count, nor does their number, and a read that is not a peek
\* moves Out past exactly the records handed back.
C34_CharBudget ==
    (calls # <<>> /\ AnsiRead(LastCall))
       => /\ Chars(LastCall.Buffer) <= LastCall.Length
          /\ LastCall.n <= LastCall.Length
          /\ ~LastCall.Peek => Out = Advance(LastCall.pre, LastCall.pre.Out, LastCall.n)

\* C34, amended: in a non-Unicode read the records handed back are the first queued
\* ones, at most the requested count of them; their characters exceed the requested
\* count by at most one, and only when the last record handed back is a full-width key
\* that was copied with one character of the budget left; records are left queued only
\* when the budget is used up; a read that is not a peek moves Out past exactly the
\* records handed back.
C34_CharBudgetButLastWide ==
    (calls # <<>> /\ AnsiRead(LastCall))
       => LET got == LastCall.Buffer
              k == Len(got)
          IN  /\ LastCall.n = k
              /\ k <= LastCall.Length
              /\ k <= Len(LastCall.preQueue)
              /\ got = SubSeq(LastCall.preQueue, 1, k)
              /\ Chars(got) <= LastCall.Length + 1
              /\ Chars(got) > LastCall.Length =>
                    /\ CharWidth(got[k]) = 2
                    /\ Chars(SubSeq(got, 1, k - 1)) = LastCall.Length - 1
              /\ k < Len(LastCall.preQueue) => Chars(got) >= LastCall.Length
              /\ ~LastCall.Peek => Out = Advance(LastCall.pre, LastCall.pre.Out, k)

\* a non-Unicode read of two characters that hands back a key and a full-width key,
\* three characters
C34_Witness ==
    /\ calls # <<>> /\ AnsiRead(LastCall)
    /\ ~LastCall.Peek
    /\ LastCall.Length = 2
    /\ LastCall.Buffer = <<KeyA, KeyWide>>
    /\ Chars(LastCall.Buffer) = 3
    /\ Out = In

\* a non-Unicode read of a wrapped buffer whose full-width key before Last uses up the
\* budget, the records from First on left queued
C34_WitnessWrapped ==
    /\ calls # <<>> /\ AnsiRead(LastCall)
    /\ ~LastCall.Peek
    /\ LastCall.pre.In < LastCall.pre.Out
    /\ LastCall.pre.In > LastCall.pre.First
    /\ LastCall.Length = 2
    /\ CharWidth(LastCall.Buffer[LastCall.n]) = 2
    /\ Out = First


\* C38: after a write that was merged into the stored key-down record, that record's
\* repeat count is the arithmetic sum of the count it had and the count of the written
\* event: no repetition is lost.
C38_RepeatSum ==
    (/\ Observed("WriteInputBuffer")
     /\ LastCall.Coalesced
     /\ LastCall.recs[1].EventType = KEY_EVENT)
       => Queue(Ring)[Len(LastCall.preQueue)].wRepeatCount =
              LastQueued(LastCall).wRepeatCount + LastCall.recs[1].wRepeatCount


\* the call of the render engine observed last
LastEngineCall == vtCalls[Len(vtCalls)]

\* C39: InvalidateCursor leaves the invalid region and its flag as they were, sets
\* _cursorMoved and clears _skipCursor; _virtualTop becomes the cursor's row when
\* _skipCursor was clear and the row is above it, and is left alone otherwise: it never
\* grows, and the call that follows the inheriting of the cursor leaves it as it was.
C39_InvalidateCursor ==
    (vtCalls # <<>> /\ LastEngineCall.op = "InvalidateCursor")
       => LET pre == LastEngineCall.pre
              y == LastEngineCall.pCoord.Y
          IN  /\ _invalidRect = pre.rect
              /\ _fInvalidRectUsed = pre.used
              /\ _lastViewport = pre.viewport
              /\ _cursorMoved
              /\ ~_skipCursor
              /\ (~pre.skipCursor /\ y < pre.virtualTop) => _virtualTop = y
              /\ ~(~pre.skipCursor /\ y < pre.virtualTop) => _virtualTop = pre.virtualTop
              /\ _virtualTop <= pre.virtualTop
              /\ pre.skipCursor => _virtualTop = pre.virtualTop
              /\ LastEngineCall.hr = S_OK

\* the call that follows the inheriting of the cursor on row 2, for a cursor on row 0,
\* with a region invalid: the top stays on row 2
C39_Witness ==
    /\ vtCalls # <<>> /\ LastEngineCall.op = "InvalidateCursor"
    /\ LastEngineCall.pre.skipCursor
    /\ LastEngineCall.pre.virtualTop = 2
    /\ LastEngineCall.pCoord.Y = 0
    /\ LastEngineCall.pre.used
    /\ _virtualTop = 2

\* a call with _skipCursor clear for a cursor above the top, in a frame where the cursor
\* had not moved: the top is lowered to the cursor's row
C39_WitnessLowered ==
    /\ vtCalls # <<>> /\ LastEngineCall.op = "InvalidateCursor"
    /\ ~LastEngineCall.pre.skipCursor
    /\ ~LastEngineCall.pre.cursorMoved
    /\ LastEngineCall.pre.virtualTop = 2
    /\ LastEngineCall.pCoord.Y = 1
    /\ _virtualTop = 1


\* a HandleMouseEvent call made with the flag set that got past the focus test
Ignoring(c) ==
    /\ c.op = "HandleMouseEvent"
    /\ CONSOLE_IGNORE_NEXT_MOUSE_INPUT \in c.preFlags
    /\ (CONSOLE_HAS_FOCUS \in c.preFlags \/ c.Selection.IsMouseButtonDown)

\* C40: while CONSOLE_IGNORE_NEXT_MOUSE_INPUT is set and the window has the focus or a
\* mouse button is down, HandleMouseEvent writes no record, a button-down message leaves
\* the flag set, and the flag is cleared by no message other than a button-up.
C40_IgnoreNextMouseInput ==
    /\ Observed("WriteInputBuffer") => CONSOLE_IGNORE_NEXT_MOUSE_INPUT \notin LastCall.preFlags
    /\ (calls # <<>> /\ Ignoring(LastCall))
          => /\ Ring = LastCall.pre
             /\ InputWaitEvent = LastCall.preEvent
             /\ LastCall.Message \in ButtonDowns => CONSOLE_IGNORE_NEXT_MOUSE_INPUT \in Flags
             /\ CONSOLE_IGNORE_NEXT_MOUSE_INPUT \notin Flags => LastCall.Message \in ButtonUps

\* what the code does: no record is written, and every message but a button-down clears
\* the flag
C40_ClearedUnlessButtonDown ==
    /\ Observed("WriteInputBuffer") => CONSOLE_IGNORE_NEXT_MOUSE_INPUT \notin LastCall.preFlags
    /\ (calls # <<>> /\ Ignoring(LastCall))
          => /\ Ring = LastCall.pre
             /\ InputWaitEvent = LastCall.preEvent
             /\ CONSOLE_IGNORE_NEXT_MOUSE_INPUT \in Flags <=> LastCall.Message \in ButtonDowns

\* a mouse move handled with the flag set and a record queued
C40_WitnessMove ==
    /\ calls # <<>> /\ Ignoring(LastCall)
    /\ LastCall.Message = "WM_MOUSEMOVE"
    /\ LastCall.preQueue # <<>>
    /\ CONSOLE_IGNORE_NEXT_MOUSE_INPUT \notin Flags
====
